---- MODULE Spec2Model ----
(***************************************************************************)
(* Stock_Analysis_Dashboard: the upload pipeline of                        *)
(* components/data_processor.py (DataProcessor.process_uploaded_data, the  *)
(* two format normalizers and the cleaner _final_data_cleaning) and the    *)
(* Golden/Death Cross rule of components/comprehensive_technical_analysis. *)
(*                                                                         *)
(* Numbers.  A numeric cell is a whole number of ticks, Scale ticks to the *)
(* unit (two decimals), so that OHLC comparisons and the percentile        *)
(* interpolation are exact integer arithmetic.  NaN and +inf are values of *)
(* their own.  A text cell is a sequence of one-character strings.         *)
(***************************************************************************)
EXTENDS Integers, Sequences, FiniteSets, TLC

VARIABLES
  market,          \* market_type argument of process_uploaded_data
  raw,             \* the table read from the uploaded file (pd.read_csv)
  df,              \* the local df of process_uploaded_data
  prev,            \* df as it was before the step taken last
  pc,              \* position inside process_uploaded_data / analyze_stock
  err,             \* kind of the exception raised, "" when none
  df2,             \* result of running _final_data_cleaning on its own output
  series,          \* table handed to ComprehensiveTechnicalAnalysis.analyze_stock
  df_analysis,     \* analyze_stock's df_analysis (indicator columns added)
  signals,         \* self.signals
  summary_points,  \* self.summary_points
  overall_signal,  \* overall_signal of _signals_and_summary, "" before it is set
  calls,           \* analyze_stock calls begun on this object
  shared,          \* df_analysis is the caller's table itself, not a copy
  given,           \* ticker argument of load_indian_ticker
  period,          \* period argument of load_indian_ticker
  ticker,          \* the local ticker of load_indian_ticker
  fetched,         \* the stock.history calls made, each with what it gave
  hist,            \* the local hist of load_indian_ticker
  loaded,          \* how load_indian_ticker ended, status "running" before
  session_state    \* st.session_state: data, ticker, company_info

vars ==
  <<market, raw, df, prev, pc, err, df2, series, df_analysis, signals, summary_points,
    overall_signal, calls, shared, given, period, ticker, fetched, hist, loaded,
    session_state>>

uploadVars == <<market, raw, df, prev, err, df2>>
analysisVars ==
  <<series, df_analysis, signals, summary_points, overall_signal, calls, shared>>
loaderVars == <<given, period, ticker, fetched, hist, loaded>>
tickerVars == <<given, period, ticker, fetched, hist, loaded, session_state>>

\* a ticker symbol: the text before an exchange suffix and the suffix, "" when
\* the text ends with neither .NS nor .BO
Symbol(base, suffix) == [base |-> base, suffix |-> suffix]

\* Python's None
None == [none |-> TRUE]

\* app.py, lines 23-28: the session before anything is loaded
NoSession == [data |-> None, ticker |-> None, company_info |-> None]

\* no load_indian_ticker call in progress
NoLoad ==
  /\ given = Symbol("", "")
  /\ period = ""
  /\ ticker = Symbol("", "")
  /\ fetched = <<>>
  /\ hist = <<>>
  /\ loaded = [status |-> "idle", ticker |-> Symbol("", ""), df |-> <<>>, error |-> ""]

\* no load_indian_ticker call in progress, nothing in the session
NoTickerLoad ==
  /\ session_state = NoSession
  /\ given = Symbol("", "")
  /\ period = ""
  /\ ticker = Symbol("", "")
  /\ fetched = <<>>
  /\ hist = <<>>
  /\ loaded = [status |-> "idle", ticker |-> Symbol("", ""), df |-> <<>>, error |-> ""]

-----------------------------------------------------------------------------
(* Cells *)

Scale == 10 * 10

NaN == [k |-> "nan"]
Inf == [k |-> "inf"]
NaT == [k |-> "nat"]
Num(v) == [k |-> "num", v |-> v]
Date(v) == [k |-> "date", v |-> v]
Str(s) == [k |-> "str", s |-> s]

IsNum(c) == c.k = "num"
IsDate(c) == c.k = "date"
IsStr(c) == c.k = "str"

\* the text a cell shows under Series.astype(str)
AsStr(c) ==
  CASE c.k = "str" -> c.s
    [] c.k = "nan" -> <<"n", "a", "n">>
    [] c.k = "nat" -> <<"N", "a", "T">>
    [] c.k = "inf" -> <<"i", "n", "f">>
    [] OTHER -> <<"?">>

-----------------------------------------------------------------------------
(* Text helpers: str.replace(ch, ''), str.strip() *)

DigitChars == <<"0", "1", "2", "3", "4", "5", "6", "7", "8", "9">>

IsDigit(c) == \E i \in 1..10 : DigitChars[i] = c

DigitVal(c) == (CHOOSE i \in 1..10 : DigitChars[i] = c) - 1

AllDigits(s) == \A i \in 1..Len(s) : IsDigit(s[i])

RECURSIVE IntOf(_)
IntOf(s) ==
  IF s = <<>> THEN 0
  ELSE 10 * IntOf(SubSeq(s, 1, Len(s) - 1)) + DigitVal(s[Len(s)])

IsKept(c, ch) == c # ch

Remove(s, ch) == SelectSeq(s, LAMBDA c : IsKept(c, ch))

Strip(s) ==
  LET idx == {i \in 1..Len(s) : s[i] # " "}
  IN  IF idx = {} THEN <<>>
      ELSE SubSeq(s, CHOOSE i \in idx : \A j \in idx : i <= j,
                     CHOOSE i \in idx : \A j \in idx : i >= j)

IndexOf(s, ch) ==
  IF \E i \in 1..Len(s) : s[i] = ch
  THEN CHOOSE i \in 1..Len(s) : s[i] = ch /\ \A j \in 1..(i - 1) : s[j] # ch
  ELSE 0

-----------------------------------------------------------------------------
(* pd.to_numeric(text, errors='coerce'): an optional sign, digits, an       *)
(* optional point and decimals; 'inf' and 'nan' by name; anything else,     *)
(* the empty text included, is NaN.  Decimals past the second are below one *)
(* tick and are cut.                                                        *)

NanText == {<<>>, <<"n", "a", "n">>, <<"N", "a", "N">>}
InfText == {<<"i", "n", "f">>, <<"-", "i", "n", "f">>}

Unsigned(s) == IF s # <<>> /\ s[1] \in {"-", "+"} THEN Tail(s) ELSE s

Sign(s) == IF s # <<>> /\ s[1] = "-" THEN -1 ELSE 1

IntPart(s) == IF IndexOf(s, ".") = 0 THEN s ELSE SubSeq(s, 1, IndexOf(s, ".") - 1)

FracPart(s) == IF IndexOf(s, ".") = 0 THEN <<>> ELSE SubSeq(s, IndexOf(s, ".") + 1, Len(s))

IsDecimal(s) ==
  /\ AllDigits(IntPart(s))
  /\ AllDigits(FracPart(s))
  /\ Len(IntPart(s)) + Len(FracPart(s)) > 0

Ticks(s) ==
  LET f == SubSeq(FracPart(s) \o <<"0", "0">>, 1, 2)
  IN  IntOf(IntPart(s)) * Scale + IntOf(f)

to_numeric_text(s) ==
  LET t == Strip(s)
      u == Unsigned(t)
  IN  IF t \in NanText THEN NaN
      ELSE IF t \in InfText THEN Inf
      ELSE IF IsDecimal(u) THEN Num(Sign(t) * Ticks(u))
      ELSE NaN

\* pd.to_numeric(cell, errors='coerce') on a cell of any type
to_numeric(c) ==
  CASE c.k = "str" -> to_numeric_text(c.s)
    [] c.k \in {"num", "nan", "inf"} -> c
    [] OTHER -> NaN

-----------------------------------------------------------------------------
(* pd.to_datetime: a date is the number yyyymmdd.  '%d-%b-%Y' is strptime's *)
(* format; the generic parser (dateutil) also reads a/b/yyyy, day first or  *)
(* month first, swapping the two when the month read that way exceeds 12.   *)
(* Each text is parsed on its own.                                          *)

MonthNames ==
  << <<"J","a","n">>, <<"F","e","b">>, <<"M","a","r">>, <<"A","p","r">>,
     <<"M","a","y">>, <<"J","u","n">>, <<"J","u","l">>, <<"A","u","g">>,
     <<"S","e","p">>, <<"O","c","t">>, <<"N","o","v">>, <<"D","e","c">> >>

MonthOf(s) == IF \E m \in 1..12 : MonthNames[m] = s THEN CHOOSE m \in 1..12 : MonthNames[m] = s ELSE 0

IsLeap(y) == (y % 4 = 0 /\ y % 100 # 0) \/ y % 400 = 0

DaysIn(m, y) ==
  IF m = 2 THEN (IF IsLeap(y) THEN 29 ELSE 28)
  ELSE IF m \in {4, 6, 9, 11} THEN 30 ELSE 31

Bad == [k |-> "bad"]

MkDate(y, m, d) ==
  IF m \in 1..12 /\ d >= 1 /\ d <= DaysIn(m, y) THEN Date(y * 10000 + m * 100 + d) ELSE Bad

\* the three fields of a-b-c / a/b/c, or <<>> when s has not exactly two separators
Fields(s, sep) ==
  LET i == IndexOf(s, sep)
      r == IF i = 0 THEN <<>> ELSE SubSeq(s, i + 1, Len(s))
      j == IndexOf(r, sep)
      c == IF j = 0 THEN <<>> ELSE SubSeq(r, j + 1, Len(r))
  IN  IF i = 0 \/ j = 0 \/ IndexOf(c, sep) # 0 THEN <<>>
      ELSE <<SubSeq(s, 1, i - 1), SubSeq(r, 1, j - 1), c>>

\* strptime(s, '%d-%b-%Y')
strptime_dby(s) ==
  LET f == Fields(s, "-")
  IN  IF f = <<>> THEN Bad
      ELSE IF /\ Len(f[1]) \in {1, 2} /\ AllDigits(f[1])
              /\ Len(f[3]) = 4 /\ AllDigits(f[3])
              /\ MonthOf(f[2]) # 0
           THEN MkDate(IntOf(f[3]), MonthOf(f[2]), IntOf(f[1]))
           ELSE Bad

parse_slash(s, dayfirst) ==
  LET f == Fields(s, "/")
  IN  IF f = <<>> THEN Bad
      ELSE IF /\ Len(f[1]) \in {1, 2} /\ AllDigits(f[1])
              /\ Len(f[2]) \in {1, 2} /\ AllDigits(f[2])
              /\ Len(f[3]) = 4 /\ AllDigits(f[3])
           THEN LET a == IntOf(f[1])
                    b == IntOf(f[2])
                    y == IntOf(f[3])
                IN  IF dayfirst
                    THEN (IF b <= 12 THEN MkDate(y, b, a) ELSE MkDate(y, a, b))
                    ELSE (IF a <= 12 THEN MkDate(y, a, b) ELSE MkDate(y, b, a))
           ELSE Bad

NatText == NanText \cup {<<"N", "a", "T">>}

\* dateutil's parse of one text
parse_generic(s, dayfirst) ==
  LET t == Strip(s)
  IN  IF strptime_dby(t) # Bad THEN strptime_dby(t) ELSE parse_slash(t, dayfirst)

\* one element of pd.to_datetime(col, format='%d-%b-%Y'); null texts are NaT
to_datetime_format(c) ==
  CASE c.k = "date" -> c
    [] c.k = "str" -> (IF c.s \in NatText THEN NaT ELSE strptime_dby(c.s))
    [] OTHER -> NaT

\* one element of pd.to_datetime(col) / pd.to_datetime(col, dayfirst=True)
to_datetime_generic(c, dayfirst) ==
  CASE c.k = "date" -> c
    [] c.k = "str" -> (IF Strip(c.s) \in NatText THEN NaT ELSE parse_generic(c.s, dayfirst))
    [] OTHER -> NaT

\* one element of pd.to_datetime(col, errors='coerce')
to_datetime_coerce(c) ==
  IF to_datetime_generic(c, FALSE) = Bad THEN NaT ELSE to_datetime_generic(c, FALSE)

-----------------------------------------------------------------------------
(* Tables (DataFrame): cols is the list of column labels, duplicates        *)
(* allowed as in pandas; every row is the list of its cells in that order.  *)

\* the list with the same elements, held as an explicit tuple
AsList(s) == SubSeq(s, 1, Len(s))

Table(cols, rows) == [cols |-> AsList(cols), rows |-> AsList(rows)]

Range(s) == {s[i] : i \in 1..Len(s)}

HasCol(t, name) == \E i \in 1..Len(t.cols) : t.cols[i] = name

Positions(t, name) == {i \in 1..Len(t.cols) : t.cols[i] = name}

\* df[name] is a Series only when the label is unique; with a repeated label
\* it is a DataFrame, which has no .str accessor and is refused by pd.to_numeric
IsSeries(t, name) == Cardinality(Positions(t, name)) = 1

ColIndex(t, name) == CHOOSE i \in 1..Len(t.cols) : t.cols[i] = name

Cell(t, r, name) == t.rows[r][ColIndex(t, name)]

NRows(t) == Len(t.rows)

\* df[name] = f(df[name]), cell by cell
MapCol(t, name, f(_)) ==
  LET i == ColIndex(t, name)
  IN  Table(t.cols, [r \in 1..Len(t.rows) |-> [t.rows[r] EXCEPT ![i] = f(@)]])

\* df[new] = df[old]: a new last column holding a copy
CopyCol(t, old, new) ==
  LET i == ColIndex(t, old)
  IN  Table(Append(t.cols, new), [r \in 1..Len(t.rows) |-> Append(t.rows[r], t.rows[r][i])])

\* df.rename(columns=mapping) with mapping given as an operator on labels
Rename(t, mapping(_)) == Table([i \in 1..Len(t.cols) |-> mapping(t.cols[i])], t.rows)

\* df[keep-mask]
FilterRows(t, keep(_)) == Table(t.cols, SelectSeq(t.rows, keep))

-----------------------------------------------------------------------------
(* Column labels.  Header cleanup strips blanks and quotes; the             *)
(* international path lower-cases.  Both are tabulated over the labels the  *)
(* model feeds in.                                                          *)

\* df.columns.str.strip().str.replace('"', '').str.replace(' ', '')
clean_column_name(n) ==
  CASE n = " Volume" -> "Volume"
    [] n = "\"Date\"" -> "Date"
    [] n = "Adj Close" -> "AdjClose"
    [] n = "No of trades " -> "Nooftrades"
    [] OTHER -> n

\* df.columns.str.lower()
lower(n) ==
  CASE n = "Date" -> "date"
    [] n \in {"Open", "OPEN"} -> "open"
    [] n \in {"High", "HIGH"} -> "high"
    [] n \in {"Low", "LOW"} -> "low"
    [] n \in {"Close", "close"} -> "close"
    [] n \in {"Volume", "VOLUME"} -> "volume"
    [] n = "AdjClose" -> "adjclose"
    [] n = "PREVCLOSE" -> "prevclose"
    [] n = "Nooftrades" -> "nooftrades"
    [] OTHER -> n

required_columns == <<"Date", "Open", "High", "Low", "Close", "Volume">>

numeric_cols == <<"Open", "High", "Low", "Close", "Volume">>

\* column_mapping of _process_indian_format
indian_column_mapping(n) ==
  CASE n = "Date" -> "Date"
    [] n = "OPEN" -> "Open"
    [] n = "HIGH" -> "High"
    [] n = "LOW" -> "Low"
    [] n = "close" -> "Close"
    [] n = "VOLUME" -> "Volume"
    [] n = "PREVCLOSE" -> "PrevClose"
    [] n = "ltp" -> "LTP"
    [] OTHER -> n

indian_required_cols == <<"Date", "OPEN", "HIGH", "LOW", "close", "VOLUME">>

\* alt_mapping of _process_indian_format, in its iteration order
alt_mapping == << <<"Open", "OPEN">>, <<"High", "HIGH">>, <<"Low", "LOW">>,
                  <<"Close", "close">>, <<"Volume", "VOLUME">> >>

\* column_mapping of _process_international_format
international_column_mapping(n) ==
  CASE n = "date" -> "Date"
    [] n = "open" -> "Open"
    [] n = "high" -> "High"
    [] n = "low" -> "Low"
    [] n = "close" -> "Close"
    [] n = "volume" -> "Volume"
    [] n = "adj_close" -> "Adj_Close"
    [] n = "adjclose" -> "Adj_Close"
    [] OTHER -> n

MissingOf(t, names) == {names[i] : i \in {j \in 1..Len(names) : ~HasCol(t, names[j])}}

-----------------------------------------------------------------------------
(* Outcome of a call: the table returned, or the exception raised together  *)
(* with the caller's df as the call left it.                                *)

Return(t) == [ok |-> TRUE, df |-> t, err |-> ""]

Raise(e, t) == [ok |-> FALSE, df |-> t, err |-> e]

-----------------------------------------------------------------------------
(* DataProcessor._process_indian_format *)

\* the alternate-casing fallback: df[alt] = df[standard], done in place
RECURSIVE AltFallback(_, _)
AltFallback(t, i) ==
  IF i > Len(alt_mapping) THEN t
  ELSE LET standard == alt_mapping[i][1]
           alt == alt_mapping[i][2]
       IN  IF HasCol(t, standard) /\ ~HasCol(t, alt)
           THEN AltFallback(CopyCol(t, standard, alt), i + 1)
           ELSE AltFallback(t, i + 1)

IndianCopied(t) ==
  IF MissingOf(t, indian_required_cols) # {} THEN AltFallback(t, 1) ELSE t

IndianMapped(t) == Rename(IndianCopied(t), indian_column_mapping)

\* df[col].astype(str).str.replace('"', '').str.replace(',', '').str.strip(), then pd.to_numeric
NoCommaStrip(c) == to_numeric_text(Strip(Remove(AsStr(c), "\"")))
clean_indian_number(c) == to_numeric_text(Strip(Remove(Remove(AsStr(c), "\""), ",")))

\* IndianDataLoader.load_indian_csv, lines 56-57: the same without the strip
load_indian_number(c) == to_numeric_text(Remove(Remove(AsStr(c), "\""), ","))

\* the loop over Open, High, Low, Close, Volume
RECURSIVE IndianNumeric(_, _)
IndianNumeric(t, i) ==
  IF i > Len(numeric_cols) THEN Return(t)
  ELSE IF ~HasCol(t, numeric_cols[i]) THEN IndianNumeric(t, i + 1)
  ELSE IF ~IsSeries(t, numeric_cols[i]) THEN Raise("AttributeError", t)
  ELSE IndianNumeric(MapCol(t, numeric_cols[i], clean_indian_number), i + 1)

\* df['Date'].astype(str).str.replace('"', '').str.strip()
clean_indian_date(c) == Str(Strip(Remove(AsStr(c), "\"")))

DayFirst(c) == to_datetime_generic(c, TRUE)

MonthFirst(c) == to_datetime_generic(c, FALSE)

AllParse(t, name, f(_)) == \A r \in 1..NRows(t) : f(Cell(t, r, name)) # Bad

\* the try / except chain of lines 140-146: a to_datetime call raises as soon
\* as one text does not parse, and the last call is not guarded
IndianDate(t) ==
  IF ~HasCol(t, "Date") THEN Return(t)
  ELSE LET c == MapCol(t, "Date", clean_indian_date)
       IN  IF AllParse(c, "Date", to_datetime_format) THEN Return(MapCol(c, "Date", to_datetime_format))
           ELSE IF AllParse(c, "Date", DayFirst) THEN Return(MapCol(c, "Date", DayFirst))
           ELSE IF AllParse(c, "Date", MonthFirst) THEN Return(MapCol(c, "Date", MonthFirst))
           ELSE Raise("DateParseError", c)

_process_indian_format(t) ==
  LET n == IndianNumeric(IndianMapped(t), 1)
      d == IndianDate(n.df)
  IN  IF ~n.ok THEN Raise(n.err, IndianCopied(t))
      ELSE IF ~d.ok THEN Raise(d.err, IndianCopied(t))
      ELSE d

-----------------------------------------------------------------------------
(* DataProcessor._process_international_format *)

InternationalLowered(t) == Table([i \in 1..Len(t.cols) |-> lower(t.cols[i])], t.rows)

InternationalMapped(t) == Rename(InternationalLowered(t), international_column_mapping)

RECURSIVE InternationalNumeric(_, _)
InternationalNumeric(t, i) ==
  IF i > Len(numeric_cols) THEN Return(t)
  ELSE IF ~HasCol(t, numeric_cols[i]) THEN InternationalNumeric(t, i + 1)
  ELSE IF ~IsSeries(t, numeric_cols[i]) THEN Raise("TypeError", t)
  ELSE InternationalNumeric(MapCol(t, numeric_cols[i], to_numeric), i + 1)

InternationalDate(t) ==
  IF ~HasCol(t, "Date") THEN Return(t)
  ELSE IF ~IsSeries(t, "Date") THEN Raise("TypeError", t)
  ELSE Return(MapCol(t, "Date", to_datetime_coerce))

_process_international_format(t) ==
  LET n == InternationalNumeric(InternationalMapped(t), 1)
      d == InternationalDate(n.df)
  IN  IF ~n.ok THEN Raise(n.err, InternationalLowered(t))
      ELSE IF ~d.ok THEN Raise(d.err, InternationalLowered(t))
      ELSE d

-----------------------------------------------------------------------------
(* DataProcessor._final_data_cleaning, step by step *)

\* df[required_columns].copy()
KeepAllColumns(t) == t
\* line 195: df[required_columns].copy()
SelectRequired(t) ==
  Table(required_columns,
        [r \in 1..NRows(t) |-> AsList([i \in 1..Len(required_columns) |-> Cell(t, r, required_columns[i])])])

InfToNaN(c) == IF c.k = "inf" THEN NaN ELSE c

\* df.replace([np.inf, -np.inf], np.nan)
ReplaceInf(t) == Table(t.cols, [r \in 1..NRows(t) |-> AsList([i \in 1..Len(t.cols) |-> InfToNaN(t.rows[r][i])])])

\* lines 200-205: pd.to_datetime / pd.to_numeric with errors='coerce'
CoerceCell(i, c) == IF i = 1 THEN to_datetime_coerce(c) ELSE to_numeric(c)

CoerceTypes(t) == Table(t.cols, [r \in 1..NRows(t) |-> AsList([i \in 1..Len(t.cols) |-> CoerceCell(i, t.rows[r][i])])])

IsMissing(c) == c.k \in {"nan", "nat"}

NoMissing(row) == \A i \in 1..Len(row) : ~IsMissing(row[i])

\* df.dropna(subset=[...six columns...])
DropMissing(t) == FilterRows(t, NoMissing)

\* a cleaned row is <<Date, Open, High, Low, Close, Volume>>
DateOf(row) == row[1].v
OpenOf(row) == row[2].v
HighOf(row) == row[3].v
LowOf(row) == row[4].v
CloseOf(row) == row[5].v
VolumeOf(row) == row[6].v

\* invalid_mask of lines 216-227
invalid_mask(row) ==
  \/ HighOf(row) < LowOf(row)
  \/ HighOf(row) < OpenOf(row)
  \/ HighOf(row) < CloseOf(row)
  \/ LowOf(row) > OpenOf(row)
  \/ LowOf(row) > CloseOf(row)
  \/ OpenOf(row) <= 0
  \/ HighOf(row) <= 0
  \/ LowOf(row) <= 0
  \/ CloseOf(row) <= 0
  \/ VolumeOf(row) < 0

IsValidRow(row) == ~invalid_mask(row)

\* df[~invalid_mask]
DropInvalid(t) == FilterRows(t, IsValidRow)

\* df.sort_values('Date').reset_index(drop=True): rows in ascending date order,
\* rows of one date in their previous order
SortRank(rows) ==
  AsList([i \in 1..Len(rows) |->
     Cardinality({j \in 1..Len(rows) : DateOf(rows[j]) < DateOf(rows[i])})
     + Cardinality({j \in 1..i : DateOf(rows[j]) = DateOf(rows[i])})])

SortByDate(t) ==
  LET rank == SortRank(t.rows)
  IN  Table(t.cols, [k \in 1..NRows(t) |-> t.rows[CHOOSE i \in 1..NRows(t) : rank[i] = k]])

-----------------------------------------------------------------------------
(* Outlier capping, lines 237-248.  Series.quantile interpolates linearly   *)
(* between the two order statistics around (n-1)*p.  A quantile is kept as  *)
(* whole ticks i plus f hundredths of a tick, so that both comparisons      *)
(* against q1*0.01 and q99*100 are exact; the value written into the column *)
(* is the quantile in whole ticks.                                          *)

LowPct == 1
HighPct == 99
CapFactor == 100

ColumnValues(t, i) == AsList([r \in 1..NRows(t) |-> t.rows[r][i].v])

\* the k-th smallest element, k = 1 .. Len(vals)
Kth(vals, k) ==
  CHOOSE v \in Range(vals) :
    /\ Cardinality({i \in 1..Len(vals) : vals[i] < v}) < k
    /\ Cardinality({i \in 1..Len(vals) : vals[i] <= v}) >= k

\* Series.quantile(pct / 100) of a non-empty column
quantile(vals, pct) ==
  LET h == (Len(vals) - 1) * pct
      lo == h \div 100
      r == h % 100
      a == Kth(vals, lo + 1)
      d == IF r = 0 THEN 0 ELSE Kth(vals, lo + 2) - a
  IN  [i |-> a + (d \div 100) * r + ((d % 100) * r) \div 100,
       f |-> ((d % 100) * r) % 100]

\* v < q * 0.01
BelowLow(v, q) == v <= ((q.i + (IF q.f > 0 THEN 1 ELSE 0)) - 1) \div CapFactor

\* v > q * 100
AboveHigh(v, q) ==
  \/ v \div CapFactor > q.i
  \/ v \div CapFactor = q.i /\ (v % CapFactor) > q.f

\* lines 247-248 on one value: first the low cap, then the high cap
CapLowOnly(v, q1, q99) == IF BelowLow(v, q1) THEN q1.i ELSE v
CapValue(v, q1, q99) ==
  LET w == IF BelowLow(v, q1) THEN q1.i ELSE v
  IN  IF AboveHigh(w, q99) THEN q99.i ELSE w

\* one pass of the loop body for column i
CapColumn(t, i) ==
  IF NRows(t) = 0 THEN t
  ELSE LET vals == ColumnValues(t, i)
           q1 == quantile(vals, LowPct)
           q99 == quantile(vals, HighPct)
           extreme_count == Cardinality({r \in 1..NRows(t) : BelowLow(vals[r], q1) \/ AboveHigh(vals[r], q99)})
       IN  IF extreme_count > 0
           THEN Table(t.cols, [r \in 1..NRows(t) |-> [t.rows[r] EXCEPT ![i] = Num(CapValue(vals[r], q1, q99))]])
           ELSE t

\* for col in numeric_cols (columns 2..6 of the cleaned table)
RECURSIVE CapFrom(_, _)
CapFrom(t, i) == IF i > Len(required_columns) THEN t ELSE CapFrom(CapColumn(t, i), i + 1)

CapOutliers(t) == CapFrom(t, 2)

-----------------------------------------------------------------------------
(* The cleaner as a whole *)

\* lines 187-213: column check, column selection, inf removal, coercion, dropna
CheckAndDropMissing(t) ==
  IF MissingOf(t, required_columns) # {} THEN Raise("MissingColumns", t)
  ELSE IF \E i \in 1..Len(required_columns) : ~IsSeries(t, required_columns[i]) THEN Raise("TypeError", t)
  ELSE Return(DropMissing(CoerceTypes(ReplaceInf(SelectRequired(t)))))

_final_data_cleaning(t) ==
  LET a == CheckAndDropMissing(t)
  IN  IF ~a.ok THEN a
      ELSE Return(CapOutliers(SortByDate(DropInvalid(a.df))))

-----------------------------------------------------------------------------
(* Uploaded files.  A file is the table pd.read_csv returns: text cells,    *)
(* NaN for an empty field.                                                  *)

MaxRows == 2
PadRows == 100

Markets == {"Indian Market", "International (US)"}

Txt1 == Str(<<"1">>)
Txt20 == Str(<<"2", "0">>)
Txt20000 == Str(<<"2", "0", "0", "0", "0">>)
TxtGrouped == Str(<<"2", "0", ",", "0", "0", "0">>)
TxtQuoted == Str(<<"\"", "1", ",", "5", "0", "\"">>)
TxtDecimal == Str(<<" ", "1", ".", "5">>)
TxtGarbage == Str(<<"x">>)
TxtZero == Str(<<"0">>)
TxtNegative == Str(<<"-", "5">>)
TxtInf == Str(<<"i", "n", "f">>)
Txt5 == Str(<<"5">>)

Date19 == Str(<<"1", "9", "-", "A", "u", "g", "-", "2", "0", "2", "5">>)
Date20 == Str(<<"2", "0", "-", "A", "u", "g", "-", "2", "0", "2", "5">>)
DateSlash == Str(<<"2", "1", "/", "0", "8", "/", "2", "0", "2", "5">>)
DateQuoted == Str(<<"\"", "1", "9", "-", "A", "u", "g", "-", "2", "0", "2", "5", "\"">>)

\* the row of the NSE example: "19-Aug-2025","1,390.00","1,421.00","1,389.10","1,420.10","1,43,84,719"
ExampleRow ==
  << Date19,
     Str(<<"1", ",", "3", "9", "0", ".", "0", "0">>),
     Str(<<"1", ",", "4", "2", "1", ".", "0", "0">>),
     Str(<<"1", ",", "3", "8", "9", ".", "1", "0">>),
     Str(<<"1", ",", "4", "2", "0", ".", "1", "0">>),
     Str(<<"1", ",", "4", "3", ",", "8", "4", ",", "7", "1", "9">>) >>

\* one-row files: every combination of these cells
OpenCells == {Txt1, Txt20, TxtGrouped, TxtQuoted, TxtDecimal, TxtGarbage, TxtZero, NaN}
HighCells == {Txt20, Txt20000, TxtGrouped}
LowCells == {Txt1, Txt20}
CloseCells == {Txt1, Txt20}
VolumeCells == {Txt5, TxtZero, TxtNegative, TxtInf, TxtGrouped, NaN}
DateCells == {Date19, DateSlash, DateQuoted, TxtGarbage, NaN}

SingleRows ==
  {<<d, o, h, l, c, v>> : d \in DateCells, o \in OpenCells, h \in HighCells,
                          l \in LowCells, c \in CloseCells, v \in VolumeCells}

\* rows of plain numbers, read alike by both paths: <<Open, High, Low, Close, Volume>>
CorePrices ==
  { <<Txt20, Txt20, Txt1, Txt20, Txt5>>,
    <<Txt20000, Txt20000, Txt20000, Txt20000, Txt5>>,
    <<Txt20, Txt20, Txt20, Txt20, Txt5>>,
    <<Txt1, Txt20, Txt1, Txt1, Txt5>>,
    <<Txt1, Txt1, Txt1, Txt1, TxtZero>>,
    <<Txt1, Txt20000, Txt1, Txt20, Txt20000>>,
    <<Txt20, Txt1, Txt1, Txt20, Txt5>>,
    <<TxtZero, Txt20, TxtZero, Txt20, Txt5>>,
    <<Txt20, Txt20, Txt20, Txt20, TxtNegative>> }

CoreRows ==
  {<<d>> \o p : d \in {Date19, Date20}, p \in CorePrices}
  \cup {<<TxtGarbage, Txt20, Txt20, Txt20, Txt20, Txt5>>, <<NaN, Txt20, Txt20, Txt20, Txt20, Txt5>>}

SmallFiles == UNION {[1..n -> CoreRows] : n \in 0..MaxRows}

\* a long quiet stretch: PadRows daily bars at 20.00, one date each, in 2024
NumberText(n) ==
  IF n < 10 THEN <<DigitChars[n + 1]>> ELSE <<DigitChars[(n \div 10) + 1], DigitChars[(n % 10) + 1]>>

PadDate(i) ==
  Str(NumberText(((i - 1) % 28) + 1) \o <<"-">> \o MonthNames[(((i - 1) \div 28) % 12) + 1]
      \o <<"-", "2", "0", "2", "4">>)

PadRow(i) == <<PadDate(i), Txt20, Txt20, Txt20, Txt20, Txt5>>

Padding == AsList([i \in 1..PadRows |-> PadRow(i)])

LongFiles == {<<r>> \o Padding : r \in CoreRows}

IndianHeader == <<"Date", "OPEN", "HIGH", "LOW", "close", "VOLUME">>
TitleHeader == <<"Date", "Open", "High", "Low", "Close", "Volume">>
LowerHeader == <<"date", "open", "high", "low", "close", "volume">>
DirtyHeader == <<"\"Date\"", "Open", "High", "Low", "Close", " Volume">>
MixedHeader == <<"Date", "OPEN", "HIGH", "LOW", "Close", "VOLUME">>

Headers == {IndianHeader, TitleHeader, LowerHeader, DirtyHeader, MixedHeader}

StandardHeader(m) == IF m = "Indian Market" THEN IndianHeader ELSE TitleHeader

\* s without its k-th element (k = 0: s itself)
Without(s, k) == IF k = 0 THEN s ELSE SubSeq(s, 1, k - 1) \o SubSeq(s, k + 1, Len(s))

HeaderRows ==
  { << <<Date19, Txt20, Txt20, Txt1, Txt20, Txt5>>, <<Date20, Txt20, Txt20000, Txt20, Txt20, Txt5>> >>,
    << <<TxtGarbage, Txt20, Txt20, Txt1, Txt20, Txt5>>, <<Date20, Txt20, Txt20000, Txt20, Txt20, Txt5>> >>,
    << ExampleRow >> }

\* files whose header varies: each header, whole or with one column left out
HeaderFiles ==
  {Table(Without(h, k), [r \in 1..Len(rows) |-> Without(rows[r], k)]) :
     h \in Headers, k \in 0..6, rows \in HeaderRows}

\* files of an NSE export that also carry the vwap and "No of trades "
\* columns, under each header
NseFiles ==
  {Table(h \o <<"vwap", "No of trades ">>, [r \in 1..Len(rows) |-> rows[r] \o <<Txt20, Txt5>>]) :
     h \in Headers, rows \in HeaderRows}

RowFiles == SmallFiles \cup LongFiles \cup {<<r>> : r \in SingleRows} \cup {<<ExampleRow, r>> : r \in CoreRows}

EmptyTable == Table(<<>>, <<>>)

NoResult == Return(EmptyTable)

-----------------------------------------------------------------------------
(* DataProcessor.process_uploaded_data, one action per step.  pc is the     *)
(* position in the method: "start" (file read), "cleaning" (format          *)
(* normalized), "validate", "sort", "cap", "cleaned" (inside and at the end *)
(* of _final_data_cleaning), "done" (table returned), "error" (raised).     *)

\* line 47: header cleanup
CleanHeaders(t) == Table([i \in 1..Len(t.cols) |-> clean_column_name(t.cols[i])], t.rows)

Init ==
  /\ market \in Markets
  /\ raw \in {Table(StandardHeader(market), rows) : rows \in RowFiles} \cup HeaderFiles \cup NseFiles
  /\ df = raw
  /\ prev = raw
  /\ pc = "start"
  /\ err = ""
  /\ df2 = NoResult
  /\ series = EmptyTable
  /\ df_analysis = EmptyTable
  /\ signals = <<>>
  /\ summary_points = <<>>
  /\ overall_signal = ""
  /\ calls = 0
  /\ shared = FALSE
  /\ NoTickerLoad

Step(res, next) ==
  /\ prev' = df
  /\ df' = res.df
  /\ err' = res.err
  /\ pc' = IF res.ok THEN next ELSE "error"
  /\ UNCHANGED <<market, raw, df2>>
  /\ UNCHANGED analysisVars
  /\ UNCHANGED tickerVars

\* lines 50-51
ProcessIndianFormat ==
  /\ pc = "start"
  /\ market = "Indian Market"
  /\ Step(_process_indian_format(CleanHeaders(df)), "cleaning")

\* lines 52-53
ProcessInternationalFormat ==
  /\ pc = "start"
  /\ market # "Indian Market"
  /\ Step(_process_international_format(CleanHeaders(df)), "cleaning")

\* _final_data_cleaning, lines 187-213
CleanDropMissing ==
  /\ pc = "cleaning"
  /\ Step(CheckAndDropMissing(df), "validate")

\* lines 215-232
CleanDropInvalid ==
  /\ pc = "validate"
  /\ Step(Return(DropInvalid(df)), "sort")

\* line 235
CleanSort ==
  /\ pc = "sort"
  /\ Step(Return(SortByDate(df)), "cap")

\* lines 237-250
CleanCapOutliers ==
  /\ pc = "cap"
  /\ Step(Return(CapOutliers(df)), "cleaned")

\* lines 58-85: the emptiness check, then the return
ReturnAlways ==
  /\ pc = "cleaned"
  /\ Step(Return(df), "done")
ReturnOrRaise ==
  /\ pc = "cleaned"
  /\ Step(IF NRows(df) = 0 THEN Raise("EmptyData", df) ELSE Return(df), "done")

\* the cleaner applied once more, to the table it returned
CleanAgain ==
  /\ pc = "done"
  /\ df2' = _final_data_cleaning(df)
  /\ pc' = "recleaned"
  /\ UNCHANGED <<market, raw, df, prev, err>>
  /\ UNCHANGED analysisVars
  /\ UNCHANGED tickerVars

Next ==
  \/ ProcessIndianFormat
  \/ ProcessInternationalFormat
  \/ CleanDropMissing
  \/ CleanDropInvalid
  \/ CleanSort
  \/ CleanCapOutliers
  \/ ReturnOrRaise
  \/ CleanAgain

Spec == Init /\ [][Next]_vars

-----------------------------------------------------------------------------
(* process_uploaded_data as a whole, lines 47-89 *)

Normalized(t, m) ==
  IF m = "Indian Market" THEN _process_indian_format(CleanHeaders(t))
  ELSE _process_international_format(CleanHeaders(t))

\* the labels after the column-mapping step of the market's path
MappedColumns(t, m) ==
  IF m = "Indian Market" THEN IndianMapped(CleanHeaders(t)) ELSE InternationalMapped(CleanHeaders(t))

process_uploaded_data(t, m) ==
  LET f == Normalized(t, m)
      c == _final_data_cleaning(f.df)
  IN  IF ~f.ok THEN f
      ELSE IF ~c.ok THEN c
      ELSE IF NRows(c.df) = 0 THEN Raise("EmptyData", c.df)
      ELSE c

\* the table after the missing-value drop and the invalid-row drop (steps 3-4)
AfterDrops(t, m) ==
  LET f == Normalized(t, m)
      a == CheckAndDropMissing(f.df)
  IN  IF ~f.ok THEN f ELSE IF ~a.ok THEN a ELSE Return(DropInvalid(a.df))

Returned == pc \in {"done", "recleaned"}

Finished == pc \in {"done", "recleaned", "error"}

Cleaned == pc \in {"cleaned", "done", "recleaned"}

-----------------------------------------------------------------------------
(* Claims *)

Min(a, b) == IF a <= b THEN a ELSE b

Max(a, b) == IF a >= b THEN a ELSE b

RowConsistent(row) ==
  /\ LowOf(row) <= Min(OpenOf(row), CloseOf(row))
  /\ Max(OpenOf(row), CloseOf(row)) <= HighOf(row)
  /\ OpenOf(row) > 0 /\ HighOf(row) > 0 /\ LowOf(row) > 0 /\ CloseOf(row) > 0
  /\ VolumeOf(row) >= 0

\* C1: every row of the table the cleaner returns (outlier capping done) has
\* Low <= min(Open, Close), max(Open, Close) <= High, the four prices > 0 and
\* Volume >= 0.
C1_CleanedRowsConsistent ==
  Cleaned => \A r \in 1..NRows(df) : RowConsistent(df.rows[r])

\* C2: in the table the cleaner returns the dates are strictly ascending, so a
\* date held by several valid input rows is kept once.
C2_DatesStrictlyAscending ==
  Cleaned => \A r \in 1..(NRows(df) - 1) : DateOf(df.rows[r]) < DateOf(df.rows[r + 1])

\* C3: the cleaner applied to its own output returns that output unchanged.
C3_CleanerIdempotent ==
  pc = "recleaned" => df2.ok /\ df2.df = df

\* what the capping step is to leave in column i of row r, from the column as
\* it was before the step
CappedAsStated(before, r, i) ==
  LET vals == ColumnValues(before, i)
      q1 == quantile(vals, LowPct)
      q99 == quantile(vals, HighPct)
  IN  IF BelowLow(vals[r], q1) THEN q1.i
      ELSE IF AboveHigh(vals[r], q99) THEN q99.i
      ELSE vals[r]

\* C4: the capping step keeps every row; in each numeric column a value below
\* q1*0.01 becomes q1, a value above q99*100 becomes q99, any other value and
\* every date stay as they were.
C4_CappingKeepsRows ==
  pc = "cleaned" =>
    /\ NRows(df) = NRows(prev)
    /\ df.cols = prev.cols
    /\ \A r \in 1..NRows(prev) :
         /\ df.rows[r][1] = prev.rows[r][1]
         /\ \A i \in 2..Len(required_columns) : df.rows[r][i] = Num(CappedAsStated(prev, r, i))

\* a value 1000 times its column's 99th percentile has been capped to that
\* percentile, its row kept
C4_Witness ==
  /\ pc = "cleaned"
  /\ \E r \in 1..NRows(prev) :
       /\ HighOf(prev.rows[r]) = 1000 * quantile(ColumnValues(prev, 3), HighPct).i
       /\ HighOf(df.rows[r]) = quantile(ColumnValues(prev, 3), HighPct).i

\* C5: process_uploaded_data returns no empty table; when no row is left
\* after the missing-value drop and the invalid-row drop it raises.
C5_NeverReturnsEmpty ==
  /\ Returned => NRows(df) > 0
  /\ (Finished /\ AfterDrops(raw, market).ok /\ NRows(AfterDrops(raw, market).df) = 0)
       => (pc = "error" /\ err = "EmptyData")

C5_Witness ==
  /\ pc = "error"
  /\ err = "EmptyData"
  /\ NRows(raw) > 0
  /\ NRows(AfterDrops(raw, market).df) = 0

\* C6: whenever one of the six columns is absent after the column-mapping
\* step, processing fails with the missing-columns error and returns no table.
C6_MissingColumnsError ==
  (Finished /\ MissingOf(MappedColumns(raw, market), required_columns) # {})
    => (pc = "error" /\ err = "MissingColumns")


\* a text of digits with quotes and commas put anywhere and at most one point
IsGroupedNumber(s) ==
  /\ \A i \in 1..Len(s) : IsDigit(s[i]) \/ s[i] \in {",", "\"", "."}
  /\ Cardinality({i \in 1..Len(s) : s[i] = "."}) <= 1
  /\ \E i \in 1..Len(s) : IsDigit(s[i])

IsDigitOrPoint(c) == IsDigit(c) \/ c = "."

\* the number its digits and decimal point form
DigitsNumber(s) == Num(Ticks(SelectSeq(s, IsDigitOrPoint)))

IsAug19(c) == c \in {Date19, DateQuoted}

\* C7: in the Indian path a numeric text of digits, quotes and commas (any
\* grouping, lakh grouping included) becomes the number its digits and point
\* form, in every numeric column, and "19-Aug-2025" becomes 2025-08-19.
C7_IndianNumbersAndDates ==
  (pc = "cleaning" /\ market = "Indian Market") =>
    LET m == MappedColumns(raw, market)
    IN  \A r \in 1..NRows(m) :
          /\ \A i \in 1..Len(numeric_cols) :
               (HasCol(m, numeric_cols[i]) /\ Cell(m, r, numeric_cols[i]).k = "str"
                  /\ IsGroupedNumber(Cell(m, r, numeric_cols[i]).s))
               => /\ Cell(df, r, numeric_cols[i]) = DigitsNumber(Cell(m, r, numeric_cols[i]).s)
                  /\ load_indian_number(Cell(m, r, numeric_cols[i])) = DigitsNumber(Cell(m, r, numeric_cols[i]).s)
          /\ (HasCol(m, "Date") /\ IsAug19(Cell(m, r, "Date")))
               => Cell(df, r, "Date") = Date(20250819)

\* the NSE example row, normalized
C7_Witness ==
  /\ pc = "cleaning"
  /\ market = "Indian Market"
  /\ NRows(raw) > 0
  /\ raw.rows[1] = ExampleRow
  /\ df.rows[1] = <<Date(20250819), Num(139000), Num(142100), Num(138910), Num(142010), Num(14384719 * Scale)>>

\* C8: in the Indian path a file headed Open, High, Low, Close, Volume (the
\* primary OPEN, HIGH, LOW, close, VOLUME absent) is normalized to the table
\* the same rows give under the primary header.
C8_AlternateCasingAccepted ==
  (Finished /\ market = "Indian Market" /\ CleanHeaders(raw).cols = TitleHeader
     /\ process_uploaded_data(Table(IndianHeader, raw.rows), market).ok)
    => (Returned /\ df = process_uploaded_data(Table(IndianHeader, raw.rows), market).df)

\* one raw row read field by field: a field that does not parse is missing
ParsedCell(m, i, c) ==
  IF i = 1
  THEN (IF m = "Indian Market"
        THEN (IF DayFirst(clean_indian_date(c)) = Bad THEN NaT ELSE DayFirst(clean_indian_date(c)))
        ELSE to_datetime_coerce(c))
  ELSE InfToNaN(IF m = "Indian Market" THEN clean_indian_number(c) ELSE to_numeric(c))

ParsedRow(m, row) == [i \in 1..Len(row) |-> ParsedCell(m, i, row[i])]

GoodRows(m, t) ==
  {r \in 1..NRows(t) : NoMissing(ParsedRow(m, t.rows[r])) /\ RowConsistent(ParsedRow(m, t.rows[r]))}

\* C9: for both markets an unparseable Date or number does not abort the
\* run: the field is missing, only rows with a missing field are dropped by
\* the cleaner and every fully parseable valid row is in the result.
C9_ParseFailureDoesNotAbort ==
  (Finished /\ CleanHeaders(raw).cols = StandardHeader(market)) =>
    IF GoodRows(market, raw) = {}
    THEN pc = "error" /\ err = "EmptyData"
    ELSE Returned /\ NRows(df) = Cardinality(GoodRows(market, raw))


-----------------------------------------------------------------------------
(* ComprehensiveTechnicalAnalysis.  An indicator value is a whole number of *)
(* 1/IndUnit ticks, IndUnit a common multiple of the three SMA windows, so  *)
(* that every rolling mean is exact; a null (NaN) is NaN.                   *)

SmaShort == 20
SmaMid == 50
SmaLong == 200

IndUnit == SmaLong

\* vals[lo] + ... + vals[hi]
RECURSIVE SumRange(_, _, _)
SumRange(vals, lo, hi) ==
  IF lo > hi THEN 0
  ELSE IF lo = hi THEN vals[lo]
  ELSE LET mid == (lo + hi) \div 2
       IN  SumRange(vals, lo, mid) + SumRange(vals, mid + 1, hi)

\* SMAIndicator(close, window).sma_indicator(): close.rolling(window,
\* min_periods=window).mean(), null until the window is full
sma_indicator(vals, w, i) ==
  IF i < w THEN NaN
  ELSE Num(SumRange(vals, i - w + 1, i) * (IndUnit \div w))

\* the columns _calculate_all_indicators adds and the analysis takes decisions
\* from (EMA_20, MACD_Histogram and BB_Middle are only charted or displayed)
indicator_columns ==
  << "SMA_20", "SMA_50", "SMA_200", "RSI", "MACD", "MACD_Signal", "Stoch_K", "Stoch_D",
     "BB_Upper", "BB_Lower", "ATR", "OBV", "VWAP" >>

RsiWindow == 14
MacdSlow == 26
MacdSign == 9
StochWindow == 14
StochSmooth == 3
BbWindow == 20
AtrWindow == 14

\* percentages (RSI, Stoch_K, Stoch_D) are whole numbers of 1/PctUnit percent
PctUnit == Scale * Scale

\* n / d in units of 1/unit, d > 0, truncated towards zero
FixDiv(n, d, unit) ==
  IF n >= 0 THEN (n \div d) * unit + ((n % d) * unit) \div d
  ELSE 0 - ((((0 - n) \div d) * unit) + ((((0 - n) % d) * unit) \div d))

\* Series.cumsum()
RECURSIVE PrefixFrom(_, _, _, _)
PrefixFrom(vals, lo, hi, off) ==
  IF lo > hi THEN <<>>
  ELSE IF lo = hi THEN <<off + vals[lo]>>
  ELSE LET mid == (lo + hi) \div 2
           left == PrefixFrom(vals, lo, mid, off)
       IN  left \o PrefixFrom(vals, mid + 1, hi, left[Len(left)])

cumsum(vals) == AsList(PrefixFrom(vals, 1, Len(vals), 0))

\* rolling(window).min() / .max() at row i >= window
RollMin(vals, w, i) == CHOOSE v \in {vals[j] : j \in (i - w + 1)..i} : \A j \in (i - w + 1)..i : v <= vals[j]
RollMax(vals, w, i) == CHOOSE v \in {vals[j] : j \in (i - w + 1)..i} : \A j \in (i - w + 1)..i : v >= vals[j]

\* lines 91-93: ((Close - low14) / (high14 - low14)) * 100; a zero range
\* divides by zero, 0/0 giving NaN
stoch_k(close, high, low, i) ==
  IF i < StochWindow THEN NaN
  ELSE LET ll == RollMin(low, StochWindow, i)
           hh == RollMax(high, StochWindow, i)
       IN  IF hh = ll THEN (IF close[i] = ll THEN NaN ELSE Inf)
           ELSE Num(FixDiv(100 * (close[i] - ll), hh - ll, PctUnit))

\* line 94: stoch_k.rolling(window=3).mean()
stoch_d(k, i) ==
  IF i < StochSmooth THEN NaN
  ELSE IF \E j \in (i - StochSmooth + 1)..i : k[j] = NaN THEN NaN
  ELSE IF \E j \in (i - StochSmooth + 1)..i : k[j] = Inf THEN Inf
  ELSE Num(SumRange([j \in 1..i |-> k[j].v], i - StochSmooth + 1, i) \div StochSmooth)

\* OnBalanceVolumeIndicator: cumsum of -volume where close < close.shift(1),
\* +volume elsewhere (the first bar included)
obv_steps(close, volume) ==
  [i \in 1..Len(close) |-> IF i > 1 /\ close[i] < close[i - 1] THEN 0 - volume[i] ELSE volume[i]]

on_balance_volume(close, volume) == cumsum(obv_steps(close, volume))

RECURSIVE Gcd(_, _)
Gcd(a, b) == IF b = 0 THEN a ELSE Gcd(b, a % b)

RECURSIVE GcdRange(_, _, _)
GcdRange(vals, lo, hi) ==
  IF lo > hi THEN 0
  ELSE IF lo = hi THEN vals[lo]
  ELSE Gcd(GcdRange(vals, lo, (lo + hi) \div 2), GcdRange(vals, ((lo + hi) \div 2) + 1, hi))

\* line 116: (Volume * (High + Low + Close) / 3).cumsum() / Volume.cumsum(),
\* in indicator units.  The volumes are divided by their common divisor first,
\* which leaves the quotient as it is; a zero cumulative volume gives 0/0.
vwap_column(close, high, low, volume) ==
  LET g == GcdRange(volume, 1, Len(volume))
      w == [i \in 1..Len(volume) |-> IF g = 0 THEN 0 ELSE volume[i] \div g]
      pv == cumsum([i \in 1..Len(volume) |-> w[i] * (high[i] + low[i] + close[i])])
      cv == cumsum(w)
  IN  [i \in 1..Len(volume) |->
         IF cv[i] = 0 THEN NaN ELSE Num(FixDiv(pv[i], 3 * cv[i], IndUnit))]

\* What the ta package returns for RSI, MACD, Bollinger Bands and ATR is not
\* computed here: the values at the last bars are taken from the ranges below,
\* and only their null warm-up rows follow the package (min_periods = window).
\*   rsi:        the RSI of every bar that has one
\*   macd_prev:  MACD - Signal before the last bar, macd: at the last bar
\*   width:      the half-width of the Bollinger band: none, exactly the
\*               distance of the last Close from the middle band, or wide
\*   atr:        the last ATR as a percentage of the last Close
RsiChoices == {30 * PctUnit - 1, 30 * PctUnit, 50 * PctUnit, 70 * PctUnit, 70 * PctUnit + 1}

MacdChoices == {0 - 1, 0, 1}

WidthChoices == {"zero", "edge", "wide"}

AtrChoices == {0, 2, 5}

Neutral == [rsi |-> 50 * PctUnit, macd_prev |-> 0, macd |-> 0, width |-> "wide", atr |-> 2]

TaOutputs ==
  {[Neutral EXCEPT !.rsi = r] : r \in RsiChoices}
    \cup {[Neutral EXCEPT !.macd_prev = a, !.macd = b] : a \in MacdChoices, b \in MacdChoices}
    \cup {[Neutral EXCEPT !.width = w] : w \in WidthChoices}
    \cup {[Neutral EXCEPT !.atr = x] : x \in AtrChoices}
    \cup {[Neutral EXCEPT !.rsi = r, !.macd_prev = 0 - b, !.macd = b, !.width = "zero"] :
            r \in {30 * PctUnit - 1, 70 * PctUnit + 1}, b \in {0 - 1, 1}}

\* the outcomes tried for a series: all of them up to the longest warm-up of
\* the package's indicators, the neutral one for the series that are long
\* only to fill the 200-bar average
TaOutputsFor(t) == IF NRows(t) > MacdSlow + MacdSign THEN {Neutral} ELSE TaOutputs

\* RSIIndicator(window=14).rsi()
rsi_column(ta, i) == IF i < RsiWindow THEN NaN ELSE Num(ta.rsi)

\* MACD(window_slow=26, window_fast=12, window_sign=9).macd() / .macd_signal();
\* Signal is taken as the origin, so the MACD column holds MACD - Signal
macd_column(ta, n, i) ==
  IF i < MacdSlow THEN NaN ELSE IF i < n THEN Num(ta.macd_prev) ELSE Num(ta.macd)

macd_signal_column(i) == IF i < MacdSlow + MacdSign - 1 THEN NaN ELSE Num(0)

\* BollingerBands(window=20, window_dev=2): the middle band is SMA_20
BandWidth(ta, close, mid) ==
  CASE ta.width = "zero" -> 0
    [] ta.width = "edge" -> IF close * IndUnit >= mid THEN close * IndUnit - mid ELSE mid - close * IndUnit
    [] OTHER -> 2 * close * IndUnit + mid

bollinger_hband(mid, w) == IF mid = NaN THEN NaN ELSE Num(mid.v + w)
bollinger_lband(mid, w) == IF mid = NaN THEN NaN ELSE Num(mid.v - w)

\* AverageTrueRange(window=14).average_true_range(): zero before the seed row
atr_column(ta, close, i) == IF i < AtrWindow THEN Num(0) ELSE Num((close * ta.atr) \div 100)

\* a price in indicator units
InIndUnits(c) == IF c.k = "num" THEN Num(c.v * IndUnit) ELSE c

\* the columns computed from the series alone, lines 71-78, 91-94, 107-116;
\* lines 111-116: a vwap column of the table is taken as VWAP
computed_columns(t) ==
  LET n == NRows(t)
      close == ColumnValues(t, ColIndex(t, "Close"))
      high == ColumnValues(t, ColIndex(t, "High"))
      low == ColumnValues(t, ColIndex(t, "Low"))
      volume == ColumnValues(t, ColIndex(t, "Volume"))
      k == AsList([r \in 1..n |-> stoch_k(close, high, low, r)])
      obv == on_balance_volume(close, volume)
  IN  [ close |-> close,
        sma20 |-> AsList([r \in 1..n |-> sma_indicator(close, SmaShort, r)]),
        sma50 |-> AsList([r \in 1..n |-> sma_indicator(close, SmaMid, r)]),
        sma200 |-> AsList([r \in 1..n |-> sma_indicator(close, SmaLong, r)]),
        stoch_k |-> k,
        stoch_d |-> AsList([r \in 1..n |-> stoch_d(k, r)]),
        obv |-> AsList([r \in 1..n |-> Num(obv[r])]),
        vwap |-> IF HasCol(t, "vwap")
                 THEN AsList([r \in 1..n |-> InIndUnits(Cell(t, r, "vwap"))])
                 ELSE AsList(vwap_column(close, high, low, volume)) ]

\* df_calc[name] = ... replaces a column of that name and appends it otherwise;
\* no rule reads a column by position, so a replaced column is kept last
without_columns(t, names) ==
  IF MissingOf(t, names) = {names[i] : i \in 1..Len(names)} THEN t
  ELSE LET keep == SelectSeq([i \in 1..Len(t.cols) |-> i],
                             LAMBDA i : \A j \in 1..Len(names) : t.cols[i] # names[j])
       IN  Table([i \in 1..Len(keep) |-> t.cols[keep[i]]],
                 [r \in 1..NRows(t) |-> AsList([i \in 1..Len(keep) |-> t.rows[r][keep[i]]])])

\* lines 67-118: the copy of df with the indicator columns, c the columns
\* computed from the series and ta the outcome of the ta package
with_indicators(t, c, ta) ==
  LET n == NRows(t)
      w == BandWidth(ta, c.close[n], IF c.sma20[n] = NaN THEN 0 ELSE c.sma20[n].v)
      kept == without_columns(t, indicator_columns)
  IN  Table(kept.cols \o indicator_columns,
            [r \in 1..n |->
               kept.rows[r] \o << c.sma20[r], c.sma50[r], c.sma200[r],
                               rsi_column(ta, r),
                               macd_column(ta, n, r),
                               macd_signal_column(r),
                               c.stoch_k[r], c.stoch_d[r],
                               bollinger_hband(c.sma20[r], w),
                               bollinger_lband(c.sma20[r], w),
                               atr_column(ta, c.close[n], r),
                               c.obv[r], c.vwap[r] >>])

_calculate_all_indicators(t, ta) == with_indicators(t, computed_columns(t), ta)

\* lines 103-104 and 120-122: AverageTrueRange writes its seed value at index
\* window - 1, which releases of the ta package do without a length check; on
\* a shorter series the call may therefore raise, and the except clause
\* returns the caller's df without any indicator column
MayFail(t) == IF NRows(t) < AtrWindow THEN BOOLEAN ELSE {FALSE}

\* a > b on floats: False when either is NaN
Gt(a, b) == a.k = "num" /\ b.k = "num" /\ a.v > b.v

Last(t, name) == Cell(t, NRows(t), name)


\* _fifty_two_week_analysis, lines 189-224: the summary point it appends
\* (no 52WH / 52WL columns: the range is taken from High and Low)
fifty_two_week_points(t) ==
  LET close == Last(t, "Close").v
      hi == CHOOSE v \in Range(ColumnValues(t, ColIndex(t, "High"))) :
              \A w \in Range(ColumnValues(t, ColIndex(t, "High"))) : w <= v
      lo == CHOOSE v \in Range(ColumnValues(t, ColIndex(t, "Low"))) :
              \A w \in Range(ColumnValues(t, ColIndex(t, "Low"))) : v <= w
  IN  IF hi = lo THEN <<>>
      ELSE IF (close - lo) * 100 > 80 * (hi - lo) THEN <<"Near 52-week high, potential breakout">>
      ELSE IF (close - lo) * 100 < 20 * (hi - lo) THEN <<"Near 52-week low, at support levels">>
      ELSE <<>>

\* lines 287-294: the crossover decision
CrossInverted(prev_50_above_200, curr_50_above_200) ==
  IF prev_50_above_200 /\ ~curr_50_above_200 THEN "golden"
  ELSE IF ~prev_50_above_200 /\ curr_50_above_200 THEN "death"
  ELSE "none"
CrossKind(prev_50_above_200, curr_50_above_200) ==
  IF ~prev_50_above_200 /\ curr_50_above_200 THEN "golden"
  ELSE IF prev_50_above_200 /\ ~curr_50_above_200 THEN "death"
  ELSE "none"

\* lines 280-294: recent_data = df.tail(10); its last two rows are df's
cross_kind(t) ==
  IF NRows(t) > 1
  THEN CrossKind(Gt(Cell(t, NRows(t) - 1, "SMA_50"), Cell(t, NRows(t) - 1, "SMA_200")),
                 Gt(Last(t, "SMA_50"), Last(t, "SMA_200")))
  ELSE "none"

\* a signal string "<direction> - <text>" is kept as the pair of its parts
Signal(direction, text) == <<direction, text>>

\* s.startswith(direction)
startswith(s, direction) == s[1] = direction

cross_signals(t) ==
  CASE cross_kind(t) = "golden" -> <<Signal("BUY", "Golden Cross detected")>>
    [] cross_kind(t) = "death" -> <<Signal("SELL", "Death Cross detected")>>
    [] OTHER -> <<>>

cross_points(t) ==
  CASE cross_kind(t) = "golden" -> <<"Golden Cross bullish signal">>
    [] cross_kind(t) = "death" -> <<"Death Cross bearish signal">>
    [] OTHER -> <<>>

\* lines 297-311: current MA alignment
alignment_points(t) ==
  LET close == InIndUnits(Last(t, "Close"))
      s20 == Last(t, "SMA_20")
      s50 == Last(t, "SMA_50")
      s200 == Last(t, "SMA_200")
  IN  IF Gt(close, s20) /\ Gt(s20, s50) /\ Gt(s50, s200) THEN <<"Perfect bullish MA alignment">>
      ELSE IF Gt(s20, close) /\ Gt(s50, s20) /\ Gt(s200, s50) THEN <<"Perfect bearish MA alignment">>
      ELSE <<>>


\* float comparisons: False when either side is NaN
Lt(a, b) == a.k = "num" /\ b.k = "num" /\ a.v < b.v
Le(a, b) == a.k = "num" /\ b.k = "num" /\ a.v <= b.v
Ge(a, b) == a.k = "num" /\ b.k = "num" /\ a.v >= b.v

Pct(p) == Num(p * PctUnit)

RsiOverbought == 70
RsiOversold == 30

\* _rsi_analysis, lines 369-380
RsiInclusive(rsi) ==
  IF Ge(rsi, Pct(RsiOverbought)) THEN "overbought"
  ELSE IF Le(rsi, Pct(RsiOversold)) THEN "oversold"
  ELSE "neutral"
rsi_zone(rsi) ==
  IF Gt(rsi, Pct(RsiOverbought)) THEN "overbought"
  ELSE IF Lt(rsi, Pct(RsiOversold)) THEN "oversold"
  ELSE "neutral"

rsi_signals(t) ==
  CASE rsi_zone(Last(t, "RSI")) = "overbought" -> <<Signal("SELL", "RSI Overbought")>>
    [] rsi_zone(Last(t, "RSI")) = "oversold" -> <<Signal("BUY", "RSI Oversold")>>
    [] OTHER -> <<>>

rsi_points(t) ==
  CASE rsi_zone(Last(t, "RSI")) = "overbought" -> <<"RSI indicates overbought condition">>
    [] rsi_zone(Last(t, "RSI")) = "oversold" -> <<"RSI indicates oversold condition">>
    [] OTHER -> <<"RSI in neutral zone">>

\* _macd_analysis, lines 438-452
MacdStrict(prev_macd, prev_signal, current_macd, current_signal) ==
  IF Lt(prev_macd, prev_signal) /\ Gt(current_macd, current_signal) THEN "bullish"
  ELSE IF Gt(prev_macd, prev_signal) /\ Lt(current_macd, current_signal) THEN "bearish"
  ELSE "none"
macd_cross(prev_macd, prev_signal, current_macd, current_signal) ==
  IF Le(prev_macd, prev_signal) /\ Gt(current_macd, current_signal) THEN "bullish"
  ELSE IF Ge(prev_macd, prev_signal) /\ Lt(current_macd, current_signal) THEN "bearish"
  ELSE "none"

macd_kind(t) ==
  IF NRows(t) > 1
  THEN macd_cross(Cell(t, NRows(t) - 1, "MACD"), Cell(t, NRows(t) - 1, "MACD_Signal"),
                  Last(t, "MACD"), Last(t, "MACD_Signal"))
  ELSE "none"

macd_signals(t) ==
  CASE macd_kind(t) = "bullish" -> <<Signal("BUY", "MACD Bullish Crossover")>>
    [] macd_kind(t) = "bearish" -> <<Signal("SELL", "MACD Bearish Crossover")>>
    [] OTHER -> <<>>

macd_points(t) ==
  CASE macd_kind(t) = "bullish" -> <<"MACD shows bullish crossover">>
    [] macd_kind(t) = "bearish" -> <<"MACD shows bearish crossover">>
    [] OTHER -> <<>>

StochOverbought == 80
StochOversold == 20

\* _stochastic_analysis, lines 500-507
StochEither(t) ==
  IF Gt(Last(t, "Stoch_K"), Pct(StochOverbought)) \/ Gt(Last(t, "Stoch_D"), Pct(StochOverbought))
  THEN <<Signal("SELL", "Stochastic Overbought")>>
  ELSE IF Lt(Last(t, "Stoch_K"), Pct(StochOversold)) \/ Lt(Last(t, "Stoch_D"), Pct(StochOversold))
  THEN <<Signal("BUY", "Stochastic Oversold")>>
  ELSE <<>>
stochastic_signals(t) ==
  IF Gt(Last(t, "Stoch_K"), Pct(StochOverbought)) /\ Gt(Last(t, "Stoch_D"), Pct(StochOverbought))
  THEN <<Signal("SELL", "Stochastic Overbought")>>
  ELSE IF Lt(Last(t, "Stoch_K"), Pct(StochOversold)) /\ Lt(Last(t, "Stoch_D"), Pct(StochOversold))
  THEN <<Signal("BUY", "Stochastic Oversold")>>
  ELSE <<>>

\* _momentum_analysis, lines 326-332
MacdBeforeRsi(t) == macd_signals(t) \o rsi_signals(t) \o stochastic_signals(t)
momentum_signals(t) == rsi_signals(t) \o macd_signals(t) \o stochastic_signals(t)
momentum_points(t) == rsi_points(t) \o macd_points(t)

\* _bollinger_bands_analysis, lines 584-592
bollinger_side(current_close, current_upper, current_lower) ==
  IF Gt(current_close, current_upper) THEN "above"
  ELSE IF Lt(current_close, current_lower) THEN "below"
  ELSE "within"

bollinger_kind(t) ==
  bollinger_side(InIndUnits(Last(t, "Close")), Last(t, "BB_Upper"), Last(t, "BB_Lower"))

BollingerSymmetric(t) ==
  CASE bollinger_kind(t) = "below" -> <<Signal("BUY", "Price below Bollinger lower band")>>
    [] bollinger_kind(t) = "above" -> <<Signal("SELL", "Price above Bollinger upper band")>>
    [] OTHER -> <<>>
bollinger_signals(t) ==
  IF bollinger_kind(t) = "below" THEN <<Signal("BUY", "Price below Bollinger lower band")>> ELSE <<>>

bollinger_points(t) ==
  CASE bollinger_kind(t) = "above" -> <<"Price above Bollinger upper band">>
    [] bollinger_kind(t) = "below" -> <<"Price below Bollinger lower band">>
    [] OTHER -> <<>>

AtrHigh == 3
AtrLow == 1

\* _atr_analysis, lines 598-642: atr_percentage = (ATR / Close) * 100
atr_points(t) ==
  LET atr == Last(t, "ATR").v
      price == Last(t, "Close").v
  IN  IF atr * 100 > AtrHigh * price THEN <<"High volatility environment">>
      ELSE IF atr * 100 < AtrLow * price THEN <<"Low volatility consolidation">>
      ELSE <<>>

\* _volatility_analysis, lines 513-517
volatility_signals(t) == bollinger_signals(t)
volatility_points(t) == bollinger_points(t) \o atr_points(t)

VolumeWindow == 20

\* line 665: df['Volume_MA'] = df['Volume'].rolling(window=20).mean(), a
\* column added to the frame the method was given
volume_ma(t) ==
  LET volume == ColumnValues(t, ColIndex(t, "Volume"))
      kept == without_columns(t, <<"Volume_MA">>)
  IN  Table(Append(kept.cols, "Volume_MA"),
            [r \in 1..NRows(t) |-> Append(kept.rows[r], sma_indicator(volume, VolumeWindow, r))])

\* _volume_chart, lines 697-717: volume_ratio = current / 20-bar average,
\* > 2 or < 0.5; the average is null before 20 bars and 0/0 is NaN
volume_points(t) ==
  LET n == NRows(t)
      volume == ColumnValues(t, ColIndex(t, "Volume"))
      total == SumRange(volume, n - VolumeWindow + 1, n)
  IN  IF n < VolumeWindow \/ total = 0 THEN <<>>
      ELSE IF volume[n] * VolumeWindow > 2 * total
           THEN <<"High trading volume indicates strong interest">>
      ELSE IF volume[n] * VolumeWindow * 2 < total
           THEN <<"Low volume suggests weak participation">>
      ELSE <<>>

\* _vwap_analysis, lines 763-768
vwap_points(t) ==
  IF Gt(InIndUnits(Last(t, "Close")), Last(t, "VWAP")) THEN <<"Price trading above VWAP">>
  ELSE <<"Price trading below VWAP">>

ObvLookback == 11

EarlierOrFirst(t, name) ==
  IF NRows(t) >= ObvLookback THEN Cell(t, NRows(t) - ObvLookback + 1, name) ELSE Cell(t, 1, name)
\* _obv_analysis, lines 795-800: the value 10 bars before the last, or the
\* last itself when the series has fewer than 11 bars
Earlier(t, name) ==
  IF NRows(t) >= ObvLookback THEN Cell(t, NRows(t) - ObvLookback + 1, name) ELSE Last(t, name)

Trend(current, earlier) == IF Gt(current, earlier) THEN "Rising" ELSE "Falling"

obv_trend(t) == Trend(Last(t, "OBV"), Earlier(t, "OBV"))
price_trend(t) == Trend(Last(t, "Close"), Earlier(t, "Close"))

\* lines 814-827
obv_signals(t) ==
  IF price_trend(t) = "Rising" /\ obv_trend(t) = "Falling"
  THEN <<Signal("SELL", "OBV bearish divergence")>>
  ELSE IF price_trend(t) = "Falling" /\ obv_trend(t) = "Rising"
  THEN <<Signal("BUY", "OBV bullish divergence")>>
  ELSE <<>>

obv_points(t) ==
  IF price_trend(t) = "Rising" /\ obv_trend(t) = "Rising"
  THEN <<"OBV confirms bullish price momentum">>
  ELSE IF price_trend(t) = "Falling" /\ obv_trend(t) = "Falling"
  THEN <<"OBV confirms bearish price momentum">>
  ELSE IF price_trend(t) = "Rising" THEN <<"OBV shows bearish divergence">>
  ELSE <<"OBV shows bullish divergence">>

\* _liquidity_analysis, lines 831-881: nothing without a Nooftrades column;
\* trades_ratio = current / 20-bar average if the average is > 0, else 1
liquidity_points(t) ==
  IF ~HasCol(t, "Nooftrades") THEN <<>>
  ELSE LET n == NRows(t)
           trades == ColumnValues(t, ColIndex(t, "Nooftrades"))
           total == SumRange(trades, n - VolumeWindow + 1, n)
       IN  IF n < VolumeWindow \/ total <= 0 THEN <<>>
           ELSE IF trades[n] * VolumeWindow * 2 > 3 * total
                THEN <<"High liquidity with increased trading activity">>
           ELSE IF trades[n] * VolumeWindow * 10 < 7 * total
                THEN <<"Lower liquidity with reduced trading activity">>
           ELSE <<>>

\* _volume_analysis, lines 649-658
volume_signals(t) == obv_signals(t)
volume_analysis_points(t) ==
  volume_points(t) \o vwap_points(t) \o obv_points(t) \o liquidity_points(t)

\* _signals_and_summary, lines 888-889
buy_signals(sigs) == SelectSeq(sigs, LAMBDA s : startswith(s, "BUY"))
sell_signals(sigs) == SelectSeq(sigs, LAMBDA s : startswith(s, "SELL"))

\* lines 906-914
RecommendTieBuy(buys, sells) ==
  IF buys >= sells THEN "BUY" ELSE IF sells > buys THEN "SELL" ELSE "NEUTRAL"
Recommend(buys, sells) ==
  IF buys > sells THEN "BUY" ELSE IF sells > buys THEN "SELL" ELSE "NEUTRAL"

recommendation(sigs) == Recommend(Len(buy_signals(sigs)), Len(sell_signals(sigs)))

-----------------------------------------------------------------------------
(* The series handed to analyze_stock: a run of bars at one price level, a  *)
(* run at a second level, and a last bar at a third.  The levels are whole  *)
(* units, for which the floating-point rolling sums and means are exact.    *)

MaxExtra == 2

Lengths ==
  {0, 1, 2, AtrWindow + 1, MacdSlow + 1, MacdSlow + MacdSign} \cup (SmaLong - 1)..(SmaLong + MaxExtra)

Levels == {1, 3, 2 * Scale}

Splits == {0, 1, SmaLong - SmaMid}

BarDate(i) ==
  Date((2024 + ((i - 1) \div 336)) * 10000 + ((((i - 1) \div 28) % 12) + 1) * 100
         + ((i - 1) % 28) + 1)

Bar(i, level) ==
  << BarDate(i), Num(level * Scale), Num(level * Scale), Num(level * Scale),
     Num(level * Scale), Num(5 * Scale) >>

Bars(n, k, x, a, c) ==
  Table(required_columns,
        [i \in 1..n |-> Bar(i, IF i = n THEN c ELSE IF i <= k THEN x ELSE a)])

SeriesFiles ==
  {Bars(n, k, x, a, c) : n \in Lengths, k \in Splits, x \in Levels, a \in Levels, c \in Levels}

\* series with a slope: a steady rise, a steady fall, and a jump followed by a
\* slide that ends above the level before the jump
ShapeLen == MacdSlow + MacdSign

Shapes ==
  { [i \in 1..ShapeLen |-> i],
    [i \in 1..ShapeLen |-> ShapeLen + 1 - i],
    [i \in 1..ShapeLen |-> IF i <= ShapeLen - ObvLookback + 1 THEN ObvLookback
                           ELSE 2 * ObvLookback + ShapeLen - i] }

FromLevels(levels) == Table(required_columns, [i \in 1..Len(levels) |-> Bar(i, levels[i])])

ShapeFiles == {FromLevels(levels) : levels \in Shapes}

\* a steady rise over 10 and over 11 bars, either side of the OBV look-back
LookbackFiles ==
  {FromLevels([i \in 1..n |-> i]) : n \in {ObvLookback - 1, ObvLookback}}

\* a table that lacks Volume
NoVolume == Table(Without(required_columns, Len(required_columns)), << <<BarDate(1), Num(Scale), Num(Scale), Num(Scale), Num(Scale)>> >>)

\* tables that carry the indicator columns already: the two-bar series as
\* _calculate_all_indicators leaves them
Enriched ==
  {with_indicators(t, computed_columns(t), Neutral) : t \in {f \in SeriesFiles : NRows(f) = 2}}

\* a series with the vwap and Nooftrades columns of an NSE export: 27 bars at
\* 3.00 with vwap 1.00, 5 trades a bar and 50 at the last
NseSeries ==
  Table(required_columns \o <<"vwap", "Nooftrades">>,
        [i \in 1..(MacdSlow + 1) |->
           Bar(i, 3) \o <<Num(Scale), Num(IF i = MacdSlow + 1 THEN 50 ELSE 5)>>])

\* ComprehensiveTechnicalAnalysis(): a fresh object, lines 15-17
InitTA ==
  /\ market \in Markets
  /\ raw = EmptyTable
  /\ df = EmptyTable
  /\ prev = EmptyTable
  /\ err = ""
  /\ df2 = NoResult
  /\ series \in SeriesFiles \cup ShapeFiles \cup LookbackFiles \cup {NoVolume, NseSeries} \cup Enriched
  /\ df_analysis = EmptyTable
  /\ signals = <<>>
  /\ summary_points = <<>>
  /\ overall_signal = ""
  /\ calls = 0
  /\ shared = FALSE
  /\ pc = "analyze"
  /\ NoTickerLoad

\* analyze_stock, lines 21-35
AnalyzeStock ==
  /\ pc = "analyze"
  /\ calls' = calls + 1
  /\ IF NRows(series) = 0 \/ MissingOf(series, required_columns) # {}
     THEN /\ pc' = "returned"
          /\ UNCHANGED <<df_analysis, shared>>
     ELSE /\ pc' = "trend"
          /\ LET c == computed_columns(series)
             IN  \E fails \in MayFail(series), ta \in TaOutputsFor(series) :
                   /\ df_analysis' = IF fails THEN series ELSE with_indicators(series, c, ta)
                   /\ shared' = fails
  /\ UNCHANGED <<series, signals, summary_points, overall_signal>>
  /\ UNCHANGED uploadVars
  /\ UNCHANGED tickerVars

\* one tab of analyze_stock: what it appends, and where the run goes next
Tab(here, next, sigs, points) ==
  /\ pc = here
  /\ signals' = signals \o sigs
  /\ summary_points' = summary_points \o points
  /\ pc' = next
  /\ UNCHANGED <<overall_signal, calls, shared>>
  /\ UNCHANGED uploadVars
  /\ UNCHANGED tickerVars

\* lines 47-48: _trend_analysis
TrendAnalysis ==
  /\ Tab("trend", "moving_averages", <<>>, fifty_two_week_points(df_analysis))
  /\ UNCHANGED <<series, df_analysis>>

\* lines 50-51: _moving_averages_analysis, which ends in _cross_analysis;
\* df['SMA_20'] raises KeyError when the indicator columns are absent
MovingAveragesAnalysis ==
  /\ IF MissingOf(df_analysis, indicator_columns) # {}
     THEN Tab("moving_averages", "raised", <<>>, <<>>)
     ELSE Tab("moving_averages", "momentum", cross_signals(df_analysis),
              cross_points(df_analysis) \o alignment_points(df_analysis))
  /\ UNCHANGED <<series, df_analysis>>

\* lines 53-54: _momentum_analysis
MomentumAnalysis ==
  /\ Tab("momentum", "volatility", momentum_signals(df_analysis), momentum_points(df_analysis))
  /\ UNCHANGED <<series, df_analysis>>

\* lines 56-57: _volatility_analysis
VolatilityAnalysis ==
  /\ Tab("volatility", "volume", volatility_signals(df_analysis), volatility_points(df_analysis))
  /\ UNCHANGED <<series, df_analysis>>

\* lines 59-60: _volume_analysis; _volume_chart assigns Volume_MA on the frame
\* it was handed, which is the caller's table when _calculate_all_indicators
\* returned df from its except clause
VolumeAnalysis ==
  /\ Tab("volume", "summary", volume_signals(df_analysis), volume_analysis_points(df_analysis))
  /\ df_analysis' = volume_ma(df_analysis)
  /\ series' = IF shared THEN volume_ma(df_analysis) ELSE series

\* lines 62-63: _signals_and_summary
SignalsAndSummary ==
  /\ pc = "summary"
  /\ overall_signal' = recommendation(signals)
  /\ pc' = "analyzed"
  /\ UNCHANGED <<series, df_analysis, signals, summary_points, calls, shared>>
  /\ UNCHANGED uploadVars
  /\ UNCHANGED tickerVars

NextTA ==
  \/ AnalyzeStock
  \/ TrendAnalysis
  \/ MovingAveragesAnalysis
  \/ MomentumAnalysis
  \/ VolatilityAnalysis
  \/ VolumeAnalysis
  \/ SignalsAndSummary

SpecTA == InitTA /\ [][NextTA]_vars

-----------------------------------------------------------------------------
(* Claims about the analysis.                                               *)

GoldenCross == Signal("BUY", "Golden Cross detected")
DeathCross == Signal("SELL", "Death Cross detected")

Tagged(seq, text) == {i \in 1..Len(seq) : seq[i][2] = text}

\* SMA_50 strictly below SMA_200 at the second-to-last bar and strictly above
\* it at the last bar, both pairs non-null
CrossedAbove(t) ==
  /\ NRows(t) > 1
  /\ \A r \in {NRows(t) - 1, NRows(t)} : IsNum(Cell(t, r, "SMA_50")) /\ IsNum(Cell(t, r, "SMA_200"))
  /\ Cell(t, NRows(t) - 1, "SMA_50").v < Cell(t, NRows(t) - 1, "SMA_200").v
  /\ Cell(t, NRows(t), "SMA_50").v > Cell(t, NRows(t), "SMA_200").v

\* C10: once the moving-average analysis of a run has finished, a series whose
\* SMA_50 was below SMA_200 at the second-to-last bar and is above it at the
\* last bar has produced exactly one Golden Cross signal, which is a BUY, and
\* no Death Cross signal; and whatever the series, the run has produced at
\* most one signal out of Golden Cross and Death Cross.
C10_GoldenCrossOnce ==
  pc = "momentum" =>
    /\ CrossedAbove(df_analysis) =>
         /\ Cardinality(Tagged(signals, "Golden Cross detected")) = 1
         /\ \A i \in Tagged(signals, "Golden Cross detected") : startswith(signals[i], "BUY")
         /\ Tagged(signals, "Death Cross detected") = {}
    /\ Cardinality(Tagged(signals, "Golden Cross detected")
                     \cup Tagged(signals, "Death Cross detected")) <= 1

C10_Witness ==
  /\ pc = "momentum"
  /\ CrossedAbove(df_analysis)
  /\ signals = <<GoldenCross>>

\* SMA_50 or SMA_200 is null at the last or at the second-to-last bar
CrossInputNull(t) ==
  \/ NRows(t) < 2
  \/ \E r \in {NRows(t) - 1, NRows(t)} :
       ~IsNum(Cell(t, r, "SMA_50")) \/ ~IsNum(Cell(t, r, "SMA_200"))

\* C11: once the moving-average analysis of a run has finished, a series with
\* SMA_50 or SMA_200 null at either of the last two bars has produced neither
\* a Golden Cross nor a Death Cross signal.
C11_NullAverageNoCross ==
  (pc = "momentum" /\ CrossInputNull(df_analysis)) =>
    /\ Tagged(signals, "Golden Cross detected") = {}
    /\ Tagged(signals, "Death Cross detected") = {}

\* the number of accumulated signals with the given direction
Directed(sigs, direction) == Cardinality({i \in 1..Len(sigs) : sigs[i][1] = direction})

\* C12: once _signals_and_summary has run, the recommendation is BUY exactly
\* when the signal list holds strictly more BUY than SELL signals, SELL exactly
\* when it holds strictly more SELL than BUY signals, and NEUTRAL exactly when
\* the two counts are equal, zero and zero included.
C12_RecommendationByCount ==
  pc = "analyzed" =>
    /\ overall_signal = "BUY" <=> Directed(signals, "BUY") > Directed(signals, "SELL")
    /\ overall_signal = "SELL" <=> Directed(signals, "SELL") > Directed(signals, "BUY")
    /\ overall_signal = "NEUTRAL" <=> Directed(signals, "BUY") = Directed(signals, "SELL")

C12_Witness ==
  /\ pc = "analyzed"
  /\ Directed(signals, "BUY") > 0
  /\ Directed(signals, "BUY") = Directed(signals, "SELL")
  /\ overall_signal = "NEUTRAL"

\* the place of a signal's rule in the stated order
RuleRank(s) ==
  CASE s[2] \in {"Golden Cross detected", "Death Cross detected"} -> 1
    [] s[2] \in {"RSI Overbought", "RSI Oversold"} -> 2
    [] s[2] \in {"MACD Bullish Crossover", "MACD Bearish Crossover"} -> 3
    [] s[2] \in {"Stochastic Overbought", "Stochastic Oversold"} -> 4
    [] s[2] = "Price below Bollinger lower band" -> 5
    [] s[2] \in {"OBV bearish divergence", "OBV bullish divergence"} -> 6
    [] OTHER -> 0

InRuleOrder(sigs) ==
  /\ \A i \in 1..Len(sigs) : RuleRank(sigs[i]) > 0
  /\ \A i \in 1..Len(sigs) : \A j \in i..Len(sigs) : RuleRank(sigs[i]) <= RuleRank(sigs[j])

IsPrefix(a, b) == Len(a) <= Len(b) /\ SubSeq(b, 1, Len(a)) = a

\* C13: within one analyze_stock run the signal list is at every moment in the
\* rule order Golden/Death Cross, RSI, MACD crossover, Stochastic, Bollinger,
\* OBV divergence; the recommendation exists only once every rule has run;
\* and every step leaves the list an extension of what it was (nothing is
\* removed or reordered).
C13_SignalsInRuleOrder ==
  /\ [](InRuleOrder(signals) /\ (overall_signal # "" => pc = "analyzed"))
  /\ [][IsPrefix(signals, signals')]_vars

C13_Witness ==
  /\ pc = "analyzed"
  /\ \E i \in 1..Len(signals) : RuleRank(signals[i]) = 2
  /\ \E i \in 1..Len(signals) : RuleRank(signals[i]) = 3
  /\ \E i \in 1..Len(signals) : RuleRank(signals[i]) = 6

-----------------------------------------------------------------------------
(* Several analyze_stock calls on one ComprehensiveTechnicalAnalysis object. *)

MaxCalls == 2

RepeatSeries == ShapeFiles

InitRepeat ==
  /\ market \in Markets
  /\ raw = EmptyTable
  /\ df = EmptyTable
  /\ prev = EmptyTable
  /\ err = ""
  /\ df2 = NoResult
  /\ series \in RepeatSeries
  /\ df_analysis = EmptyTable
  /\ signals = <<>>
  /\ summary_points = <<>>
  /\ overall_signal = ""
  /\ calls = 0
  /\ shared = FALSE
  /\ pc = "analyze"
  /\ NoTickerLoad

\* the next analyze_stock(df) on the same object: the locals of the call are
\* new, self.signals and self.summary_points are what the last call left
\* (lines 19-63 assign neither)
CallAgain ==
  /\ pc = "analyzed"
  /\ calls < MaxCalls
  /\ series' \in RepeatSeries
  /\ df_analysis' = EmptyTable
  /\ shared' = FALSE
  /\ overall_signal' = ""
  /\ pc' = "analyze"
  /\ UNCHANGED <<signals, summary_points, calls>>
  /\ UNCHANGED uploadVars
  /\ UNCHANGED tickerVars

NextRepeat ==
  \/ NextTA
  \/ CallAgain

SpecRepeat == InitRepeat /\ [][NextRepeat]_vars

\* what one run on a fresh object reports for the indicator table t
FreshSignals(t) ==
  cross_signals(t) \o momentum_signals(t) \o volatility_signals(t) \o volume_signals(t)

FreshPoints(t) ==
  fifty_two_week_points(t) \o cross_points(t) \o alignment_points(t) \o momentum_points(t)
    \o volatility_points(t) \o volume_analysis_points(t)

ReportsAsFresh ==
  /\ signals = FreshSignals(df_analysis)
  /\ summary_points = FreshPoints(df_analysis)
  /\ Directed(signals, "BUY") = Directed(FreshSignals(df_analysis), "BUY")
  /\ Directed(signals, "SELL") = Directed(FreshSignals(df_analysis), "SELL")
  /\ overall_signal = recommendation(FreshSignals(df_analysis))

\* C14: when a call of analyze_stock on an object that has already served a
\* call has finished, the signals, observations, BUY and SELL counts and the
\* recommendation are those a fresh object reports for the same input.
C14_NoStateAcrossCalls ==
  (pc = "analyzed" /\ calls > 1) => ReportsAsFresh

-----------------------------------------------------------------------------
(* The rules one by one: what a tab's step appends.                         *)

Appended == SubSeq(signals', Len(signals) + 1, Len(signals'))
Observed == SubSeq(summary_points', Len(summary_points) + 1, Len(summary_points'))

OfRule(sigs, k) == SelectSeq(sigs, LAMBDA s : RuleRank(s) = k)

MomentumStep == pc = "momentum" /\ pc' = "volatility"
VolatilityStep == pc = "volatility" /\ pc' = "volume"
VolumeStep == pc = "volume" /\ pc' = "summary"

\* C15: the RSI rule appends one SELL "RSI Overbought" when the last RSI is
\* above 70, one BUY "RSI Oversold" when it is below 30, and otherwise no
\* signal and the neutral observation; 70 and 30 themselves give no signal.
C15_RsiRule ==
  [][MomentumStep =>
       LET rsi == Last(df_analysis, "RSI")
           over == rsi.k = "num" /\ rsi.v > 70 * PctUnit
           under == rsi.k = "num" /\ rsi.v < 30 * PctUnit
           new == OfRule(Appended, 2)
           neutral == \E i \in 1..Len(Observed) : Observed[i] = "RSI in neutral zone"
       IN  /\ over => new = <<Signal("SELL", "RSI Overbought")>> /\ ~neutral
           /\ under => new = <<Signal("BUY", "RSI Oversold")>> /\ ~neutral
           /\ (~over /\ ~under) => new = <<>> /\ neutral]_vars

C15_Witness ==
  /\ pc = "volatility"
  /\ Last(df_analysis, "RSI") = Num(70 * PctUnit)
  /\ OfRule(signals, 2) = <<>>
  /\ \E i \in 1..Len(summary_points) : summary_points[i] = "RSI in neutral zone"

\* C16: the MACD rule appends one BUY exactly when the previous MACD is at or
\* below the previous Signal and the current MACD is above the current
\* Signal, one SELL exactly when the previous MACD is at or above the previous
\* Signal and the current MACD is below the current Signal, and nothing in
\* every other case, a one-bar series included; never both.
C16_MacdRule ==
  [][MomentumStep =>
       LET n == NRows(df_analysis)
           pm == Cell(df_analysis, n - 1, "MACD")
           ps == Cell(df_analysis, n - 1, "MACD_Signal")
           cm == Cell(df_analysis, n, "MACD")
           cs == Cell(df_analysis, n, "MACD_Signal")
           known == n > 1 /\ \A x \in {pm, ps, cm, cs} : x.k = "num"
           up == known /\ pm.v <= ps.v /\ cm.v > cs.v
           down == known /\ pm.v >= ps.v /\ cm.v < cs.v
           new == OfRule(Appended, 3)
       IN  /\ up <=> new = <<Signal("BUY", "MACD Bullish Crossover")>>
           /\ down <=> new = <<Signal("SELL", "MACD Bearish Crossover")>>
           /\ (~up /\ ~down) <=> new = <<>>]_vars

C16_Witness ==
  /\ pc = "volatility"
  /\ NRows(df_analysis) > 1
  /\ Cell(df_analysis, NRows(df_analysis) - 1, "MACD")
       = Cell(df_analysis, NRows(df_analysis) - 1, "MACD_Signal")
  /\ Cell(df_analysis, NRows(df_analysis) - 1, "MACD").k = "num"
  /\ OfRule(signals, 3) = <<Signal("BUY", "MACD Bullish Crossover")>>

\* C17: the Bollinger rule appends an observation and no signal when the last
\* Close is above the upper band, one BUY when it is below the lower band,
\* and no signal otherwise; it never appends a SELL.
C17_BollingerRule ==
  [][VolatilityStep =>
       LET close == InIndUnits(Last(df_analysis, "Close"))
           band_hi == Last(df_analysis, "BB_Upper")
           band_lo == Last(df_analysis, "BB_Lower")
           above == band_hi.k = "num" /\ close.v > band_hi.v
           below == band_lo.k = "num" /\ close.v < band_lo.v
       IN  /\ above => /\ Appended = <<>>
                       /\ \E i \in 1..Len(Observed) : Observed[i] = "Price above Bollinger upper band"
           /\ below => Appended = <<Signal("BUY", "Price below Bollinger lower band")>>
           /\ (~above /\ ~below) => Appended = <<>>
           /\ \A i \in 1..Len(Appended) : Appended[i][1] # "SELL"]_vars

C17_Witness ==
  /\ pc = "volume"
  /\ Last(df_analysis, "BB_Upper").k = "num"
  /\ InIndUnits(Last(df_analysis, "Close")).v > Last(df_analysis, "BB_Upper").v
  /\ OfRule(signals, 5) = <<>>
  /\ \E i \in 1..Len(summary_points) : summary_points[i] = "Price above Bollinger upper band"

\* C18: the OBV rule compares the last bar with the bar 10 periods earlier for
\* Close and for OBV; when both rose or both fell it appends a confirmation
\* and no signal, when Close rose and OBV fell one SELL "OBV bearish
\* divergence", when Close fell and OBV rose one BUY "OBV bullish divergence";
\* a Close or an OBV that is unchanged counts as neither a rise nor a fall.
C18_ObvRule ==
  [][VolumeStep =>
       LET n == NRows(df_analysis)
           back == IF n > 10 THEN n - 10 ELSE n
           close == Cell(df_analysis, n, "Close").v
           close_then == Cell(df_analysis, back, "Close").v
           obv == Cell(df_analysis, n, "OBV").v
           obv_then == Cell(df_analysis, back, "OBV").v
           said(text) == \E i \in 1..Len(Observed) : Observed[i] = text
       IN  /\ Appended =
                IF close > close_then /\ obv < obv_then
                THEN <<Signal("SELL", "OBV bearish divergence")>>
                ELSE IF close < close_then /\ obv > obv_then
                THEN <<Signal("BUY", "OBV bullish divergence")>>
                ELSE <<>>
           /\ said("OBV confirms bullish price momentum") => close > close_then /\ obv > obv_then
           /\ said("OBV confirms bearish price momentum") => close < close_then /\ obv < obv_then]_vars

\* C30: on a series of fewer than 11 bars the OBV rule appends no BUY or SELL
\* signal and exactly one observation of its own, "OBV confirms bearish price
\* momentum", whatever the prices and volumes are.
C30_ShortSeriesObvBearish ==
  [][(VolumeStep /\ NRows(df_analysis) < ObvLookback) =>
       LET of_obv == {"OBV confirms bullish price momentum", "OBV confirms bearish price momentum",
                      "OBV shows bearish divergence", "OBV shows bullish divergence"}
       IN  /\ \A i \in 1..Len(Appended) :
                Appended[i] \notin {Signal("SELL", "OBV bearish divergence"),
                                    Signal("BUY", "OBV bullish divergence")}
           /\ SelectSeq(Observed, LAMBDA p : p \in of_obv)
                = <<"OBV confirms bearish price momentum">>]_vars

C30_Witness ==
  /\ pc = "summary"
  /\ NRows(df_analysis) = ObvLookback - 1
  /\ Gt(Last(df_analysis, "Close"), Cell(df_analysis, 1, "Close"))
  /\ Gt(Last(df_analysis, "OBV"), Cell(df_analysis, 1, "OBV"))
  /\ \E i \in 1..Len(summary_points) : summary_points[i] = "OBV confirms bearish price momentum"

\* the cells a rule reads at the last bar, and at the bar before it if any
LastTwo(t, name) ==
  {Cell(t, r, name) : r \in {NRows(t)} \cup (IF NRows(t) > 1 THEN {NRows(t) - 1} ELSE {})}

\* C19: when a value read by the RSI, MACD crossover, Stochastic or Bollinger
\* rule is null, the step of that rule appends no signal of the rule and does
\* not raise: the momentum tab hands over to the volatility tab and the
\* volatility tab to the volume tab.
C19_NullSkipsRule ==
  [][/\ pc = "momentum" =>
          /\ pc' = "volatility"
          /\ Last(df_analysis, "RSI") = NaN => OfRule(Appended, 2) = <<>>
          /\ NaN \in LastTwo(df_analysis, "MACD") \cup LastTwo(df_analysis, "MACD_Signal")
               => OfRule(Appended, 3) = <<>>
          /\ NaN \in {Last(df_analysis, "Stoch_K"), Last(df_analysis, "Stoch_D")}
               => OfRule(Appended, 4) = <<>>
     /\ pc = "volatility" =>
          /\ pc' = "volume"
          /\ NaN \in {Last(df_analysis, "BB_Upper"), Last(df_analysis, "BB_Lower")}
               => OfRule(Appended, 5) = <<>>]_vars

C19_Witness ==
  /\ pc = "volume"
  /\ Last(df_analysis, "RSI") # NaN
  /\ Last(df_analysis, "Stoch_K").k = "num"
  /\ Last(df_analysis, "Stoch_K").v > 80 * PctUnit
  /\ Last(df_analysis, "Stoch_D") = NaN
  /\ NaN \in LastTwo(df_analysis, "MACD")
  /\ Last(df_analysis, "BB_Lower") = NaN
  /\ \A i \in 1..Len(signals) : RuleRank(signals[i]) \notin {3, 4, 5}

-----------------------------------------------------------------------------
(* IndianDataLoader.load_indian_ticker, one action per step.  What          *)
(* yfinance answers is an input: a history is a sequence of bars, each      *)
(* whole ("ok") or holding a NaN or an infinite cell, or the call raises.   *)

MaxBars == 2

BarKinds == {"ok", "nan", "inf"}

RECURSIVE SeqsUpTo(_, _)
SeqsUpTo(S, n) ==
  IF n = 0 THEN {<<>>}
  ELSE LET shorter == SeqsUpTo(S, n - 1)
       IN  shorter \cup {Append(q, x) : q \in {r \in shorter : Len(r) = n - 1}, x \in S}

Histories == SeqsUpTo(BarKinds, MaxBars)

\* stock.history(period=period): a frame, or an exception
Gave(h) == [raised |-> FALSE, bars |-> h]
Raised == [raised |-> TRUE, bars |-> <<>>]

HistoryResults == {Gave(h) : h \in Histories} \cup {Raised}

\* hist.empty
NoBars(r) == r = Gave(<<>>)

Tickers == {Symbol("TCS", ""), Symbol("TCS", ".NS"), Symbol("TCS", ".BO"), Symbol("FAKE123", "")}

Periods == {"1mo", "1y"}

\* ticker.endswith('.NS') / ticker.endswith('.BO')
endswith(t, suffix) == t.suffix = suffix

\* f"{ticker}.NS", f"{ticker}.BO" for a ticker that ends with neither
WithSuffix(t, suffix) == Symbol(t.base, suffix)

Fetch(symbol, result) == [symbol |-> symbol, period |-> period, result |-> result]

\* line 122: every exception leaves as Exception("Error fetching Indian stock
\* data for {ticker}: ..."), ticker being the local at that moment
Fail(kind) ==
  /\ loaded' = [status |-> "failed", ticker |-> ticker, df |-> <<>>, error |-> kind]
  /\ pc' = "load_failed"

InitTicker ==
  /\ market \in Markets
  /\ raw = EmptyTable
  /\ df = EmptyTable
  /\ prev = EmptyTable
  /\ err = ""
  /\ df2 = NoResult
  /\ series = EmptyTable
  /\ df_analysis = EmptyTable
  /\ signals = <<>>
  /\ summary_points = <<>>
  /\ overall_signal = ""
  /\ calls = 0
  /\ shared = FALSE
  /\ given \in Tickers
  /\ period \in Periods
  /\ ticker = given
  /\ fetched = <<>>
  /\ hist = <<>>
  /\ loaded = [status |-> "running", ticker |-> Symbol("", ""), df |-> <<>>, error |-> ""]
  /\ session_state = NoSession
  /\ pc = "load"

\* lines 86-90: no suffix, the NSE symbol is asked first; lines 92, 97-98
FetchNse ==
  /\ pc = "load"
  /\ ~endswith(ticker, ".NS") /\ ~endswith(ticker, ".BO")
  /\ \E h \in HistoryResults :
       /\ fetched' = Append(fetched, Fetch(WithSuffix(ticker, ".NS"), h))
       /\ IF h = Raised
          THEN Fail("history") /\ UNCHANGED <<ticker, hist>>
          ELSE /\ hist' = h.bars
               /\ UNCHANGED loaded
               /\ IF NoBars(h)
                  THEN pc' = "bse" /\ UNCHANGED ticker
                  ELSE pc' = "check" /\ ticker' = WithSuffix(ticker, ".NS")
  /\ UNCHANGED <<given, period>>
  /\ UNCHANGED session_state
  /\ UNCHANGED uploadVars
  /\ UNCHANGED analysisVars

FetchBseKeepsNse ==
  /\ pc = "bse"
  /\ \E h \in HistoryResults :
       /\ fetched' = Append(fetched, Fetch(WithSuffix(ticker, ".BO"), h))
       /\ IF h = Raised
          THEN Fail("history") /\ UNCHANGED <<ticker, hist>>
          ELSE /\ hist' = h.bars
               /\ ticker' = WithSuffix(ticker, ".NS")
               /\ pc' = "check"
               /\ UNCHANGED loaded
  /\ UNCHANGED <<given, period>>
  /\ UNCHANGED session_state
  /\ UNCHANGED uploadVars
  /\ UNCHANGED analysisVars
\* lines 93-96: the NSE history was empty, the BSE symbol is asked
FetchBse ==
  /\ pc = "bse"
  /\ \E h \in HistoryResults :
       /\ fetched' = Append(fetched, Fetch(WithSuffix(ticker, ".BO"), h))
       /\ IF h = Raised
          THEN Fail("history") /\ UNCHANGED <<ticker, hist>>
          ELSE /\ hist' = h.bars
               /\ ticker' = WithSuffix(ticker, ".BO")
               /\ pc' = "check"
               /\ UNCHANGED loaded
  /\ UNCHANGED <<given, period>>
  /\ UNCHANGED session_state
  /\ UNCHANGED uploadVars
  /\ UNCHANGED analysisVars

FetchGivenRetries ==
  /\ pc = "load"
  /\ endswith(ticker, ".NS") \/ endswith(ticker, ".BO")
  /\ \E h \in HistoryResults :
       /\ fetched' = Append(fetched, Fetch(ticker, h))
       /\ IF h = Raised
          THEN Fail("history") /\ UNCHANGED hist
          ELSE /\ hist' = h.bars
               /\ pc' = IF NoBars(h) THEN "bse" ELSE "check"
               /\ UNCHANGED loaded
  /\ UNCHANGED <<given, period, ticker>>
  /\ UNCHANGED session_state
  /\ UNCHANGED uploadVars
  /\ UNCHANGED analysisVars
\* lines 99-101: a ticker that carries its suffix is asked as given
FetchGiven ==
  /\ pc = "load"
  /\ endswith(ticker, ".NS") \/ endswith(ticker, ".BO")
  /\ \E h \in HistoryResults :
       /\ fetched' = Append(fetched, Fetch(ticker, h))
       /\ IF h = Raised
          THEN Fail("history") /\ UNCHANGED hist
          ELSE hist' = h.bars /\ pc' = "check" /\ UNCHANGED loaded
  /\ UNCHANGED <<given, period, ticker>>
  /\ UNCHANGED session_state
  /\ UNCHANGED uploadVars
  /\ UNCHANGED analysisVars

\* lines 103-104
CheckEmpty ==
  /\ pc = "check"
  /\ IF hist = <<>> THEN Fail("no_data") ELSE pc' = "clean" /\ UNCHANGED loaded
  /\ UNCHANGED <<given, period, ticker, fetched, hist>>
  /\ UNCHANGED session_state
  /\ UNCHANGED uploadVars
  /\ UNCHANGED analysisVars

\* lines 107-113: replace([inf, -inf], nan).dropna()
dropna(h) == SelectSeq(h, LAMBDA b : b = "ok")

\* lines 107-116
CleanHistory ==
  /\ pc = "clean"
  /\ hist' = dropna(hist)
  /\ IF dropna(hist) = <<>> THEN Fail("no_valid_data") ELSE pc' = "info" /\ UNCHANGED loaded
  /\ UNCHANGED <<given, period, ticker, fetched>>
  /\ UNCHANGED session_state
  /\ UNCHANGED uploadVars
  /\ UNCHANGED analysisVars

\* lines 118-121: info = stock.info, which may raise; return df, info, ticker
ReturnLoaded ==
  /\ pc = "info"
  /\ \E info_raises \in BOOLEAN :
       IF info_raises THEN Fail("info")
       ELSE /\ loaded' = [status |-> "returned", ticker |-> ticker, df |-> hist, error |-> ""]
            /\ pc' = "loaded"
  /\ UNCHANGED <<given, period, ticker, fetched, hist>>
  /\ UNCHANGED session_state
  /\ UNCHANGED uploadVars
  /\ UNCHANGED analysisVars

NextTicker ==
  \/ FetchNse
  \/ FetchBse
  \/ FetchGiven
  \/ CheckEmpty
  \/ CleanHistory
  \/ ReturnLoaded

SpecTicker == InitTicker /\ [][NextTicker]_vars

\* C20: for a ticker given without suffix the first history asked is that of
\* TICKER.NS; TICKER.BO is asked at most once, only after an empty TICKER.NS
\* history, and always then; the call fails for lack of data only when both
\* histories are empty; a call that returns returns the ticker with the
\* suffix of the history that held the data.
C20_NseThenBseOnce ==
  given.suffix = "" =>
    /\ Len(fetched) <= 2
    /\ Len(fetched) >= 1 => fetched[1].symbol = Symbol(given.base, ".NS")
    /\ Len(fetched) = 2 => fetched[2].symbol = Symbol(given.base, ".BO") /\ NoBars(fetched[1].result)
    /\ (pc \in {"check", "clean", "info", "loaded", "load_failed"} /\ NoBars(fetched[1].result))
         => Len(fetched) = 2
    /\ (loaded.status = "failed" /\ loaded.error = "no_data")
         => Len(fetched) = 2 /\ \A i \in 1..2 : NoBars(fetched[i].result)
    /\ loaded.status = "returned" =>
         /\ loaded.ticker = fetched[Len(fetched)].symbol
         /\ fetched[Len(fetched)].result \notin {Gave(<<>>), Raised}
         /\ loaded.df # <<>>

C20_Witness ==
  /\ given.suffix = ""
  /\ loaded.status = "returned"
  /\ Len(fetched) = 2
  /\ NoBars(fetched[1].result)
  /\ loaded.ticker = Symbol(given.base, ".BO")

\* C27: for a ticker given with .NS or .BO the only history asked is that of
\* the ticker as given, the local ticker stays as given, and an empty history
\* ends the call with the no-data error, no other suffix being tried.
C27_SuffixedTickerAskedOnce ==
  given.suffix \in {".NS", ".BO"} =>
    /\ ticker = given
    /\ Len(fetched) <= 1
    /\ pc # "load" => Len(fetched) = 1 /\ fetched[1].symbol = given
    /\ (pc \in {"clean", "info", "loaded"}) => ~NoBars(fetched[1].result)
    /\ (loaded.status # "running" /\ NoBars(fetched[1].result))
         => loaded.status = "failed" /\ loaded.error = "no_data" /\ loaded.ticker = given

C27_Witness ==
  /\ given.suffix = ".BO"
  /\ loaded.status = "failed"
  /\ loaded.error = "no_data"
  /\ Len(fetched) = 1
  /\ fetched[1].symbol = given
  /\ NoBars(fetched[1].result)

-----------------------------------------------------------------------------
(* The table analyze_stock is given.                                        *)

-----------------------------------------------------------------------------
(* The indicator columns as _calculate_all_indicators leaves them.          *)

\* the frame is the copy the indicator columns were just added to
Calculated == pc = "trend" /\ ~shared

\* max High = min Low over the w bars that end at bar r
ZeroRange(t, w, r) ==
  LET at == {r - w + 1 + j : j \in 0..(w - 1)}
  IN  \A i \in at, j \in at : Cell(t, i, "High").v = Cell(t, j, "Low").v

\* C22: at a bar whose 14-bar range is zero, Stoch_K is a number, neither
\* null nor infinite, and the indicators computed after it are present.
C22_ZeroRangeFallback ==
  Calculated =>
    \A r \in 14..NRows(df_analysis) :
      ZeroRange(df_analysis, 14, r) =>
        /\ Cell(df_analysis, r, "Stoch_K").k = "num"
        /\ MissingOf(df_analysis, <<"Stoch_D", "BB_Upper", "BB_Lower", "ATR", "OBV", "VWAP">>) = {}

\* C24: when the computation of an indicator has failed inside
\* _calculate_all_indicators, the frame the tabs work on still has the other
\* indicator columns, and the run does not end with an exception before the
\* signals-and-summary step.
C24_OneFailureDoesNotAbort ==
  /\ (shared /\ pc = "trend") =>
       \E failed \in {indicator_columns[i] : i \in 1..Len(indicator_columns)} :
         MissingOf(df_analysis, indicator_columns) \subseteq {failed}
  /\ pc # "raised"

\* null below bar w and non-null from bar w on (bars counted from 1)
WarmedUp(t, name, w) ==
  \A r \in 1..NRows(t) : (Cell(t, r, name) = NaN) <=> (r < w)

\* C25: SMA_20, SMA_50, SMA_200, Stoch_K (window 14) and the 20-bar Volume_MA
\* of a cleaned series are null at each of the first w - 1 bars and non-null
\* at every later bar; a series shorter than w has only nulls.
C25_WarmUp ==
  /\ Calculated =>
       /\ WarmedUp(df_analysis, "SMA_20", 20)
       /\ WarmedUp(df_analysis, "SMA_50", 50)
       /\ WarmedUp(df_analysis, "SMA_200", 200)
       /\ WarmedUp(df_analysis, "Stoch_K", 14)
  /\ pc = "summary" => WarmedUp(df_analysis, "Volume_MA", 20)

-----------------------------------------------------------------------------
(* DataProcessor.validate_data_for_charts, called on a table of its own.    *)
(* raw is the df argument, which the column loop assigns to; prev keeps the *)
(* argument as it was given; df is df_clean.                                *)

MaxChartRows == 3

\* a column of n float cells, each a number, NaN or an infinity
ChartCells(r) == {Num(10 * r), NaN, Inf}

RECURSIVE ChartColumns(_)
ChartColumns(n) ==
  IF n = 0 THEN {<<>>}
  ELSE {Append(col, c) : col \in ChartColumns(n - 1), c \in ChartCells(n)}

ChartTable(open, volume) ==
  Table(required_columns,
        [r \in 1..Len(open) |->
           <<BarDate(r), open[r], Num(30 * r), Num(5 * r), Num(20 * r), volume[r]>>])

ChartTables ==
  UNION {{ChartTable(open, volume) : open \in ChartColumns(n), volume \in ChartColumns(n)} :
           n \in 0..MaxChartRows}

\* Series.fillna(method='ffill'): a gap takes the last value before it
ffill(vals) ==
  [i \in 1..Len(vals) |->
     IF vals[i] # NaN \/ \A j \in 1..(i - 1) : vals[j] = NaN THEN vals[i]
     ELSE vals[CHOOSE j \in 1..(i - 1) : vals[j] # NaN /\ \A k \in (j + 1)..(i - 1) : vals[k] = NaN]]

BfillNothing(vals) == vals
\* Series.fillna(method='bfill'): a gap takes the first value after it
bfill(vals) ==
  [i \in 1..Len(vals) |->
     IF vals[i] # NaN \/ \A j \in (i + 1)..Len(vals) : vals[j] = NaN THEN vals[i]
     ELSE vals[CHOOSE j \in (i + 1)..Len(vals) : vals[j] # NaN /\ \A k \in (i + 1)..(j - 1) : vals[k] = NaN]]

FillKeepsInf(vals) ==
  IF \E i \in 1..Len(vals) : vals[i] \in {NaN, Inf}
  THEN bfill(ffill(vals))
  ELSE vals
\* lines 296-302: has_inf or has_nan, then replace, ffill, bfill
fill_column(vals) ==
  IF \E i \in 1..Len(vals) : vals[i] \in {NaN, Inf}
  THEN bfill(ffill([i \in 1..Len(vals) |-> InfToNaN(vals[i])]))
  ELSE vals

\* lines 293-302: the loop over numeric_cols, for the columns the table has
fill_columns(t) ==
  LET filled == [i \in 1..Len(t.cols) |->
                   IF \E j \in 1..Len(numeric_cols) : numeric_cols[j] = t.cols[i]
                   THEN fill_column([r \in 1..NRows(t) |-> t.rows[r][i]])
                   ELSE [r \in 1..NRows(t) |-> t.rows[r][i]]]
  IN  Table(t.cols, [r \in 1..NRows(t) |-> AsList([i \in 1..Len(t.cols) |-> filled[i][r]])])

NoNumericGap(t, row) == \A j \in 1..Len(numeric_cols) : row[ColIndex(t, numeric_cols[j])] # NaN

\* line 305: df.dropna(subset=numeric_cols)
dropna_numeric(t) == Table(t.cols, SelectSeq(t.rows, LAMBDA row : NoNumericGap(t, row)))

validate_data_for_charts(t) == dropna_numeric(fill_columns(t))

InitCharts ==
  /\ market \in Markets
  /\ raw \in ChartTables
  /\ df = EmptyTable
  /\ prev = raw
  /\ err = ""
  /\ df2 = NoResult
  /\ series = EmptyTable
  /\ df_analysis = EmptyTable
  /\ signals = <<>>
  /\ summary_points = <<>>
  /\ overall_signal = ""
  /\ calls = 0
  /\ shared = FALSE
  /\ NoTickerLoad
  /\ pc = "charts"

\* lines 293-302
FillForCharts ==
  /\ pc = "charts"
  /\ raw' = fill_columns(raw)
  /\ pc' = "filled"
  /\ UNCHANGED <<market, df, prev, err, df2>>
  /\ UNCHANGED analysisVars
  /\ UNCHANGED tickerVars

\* lines 305-311
DropForCharts ==
  /\ pc = "filled"
  /\ df' = dropna_numeric(raw)
  /\ pc' = "charted"
  /\ UNCHANGED <<market, raw, prev, err, df2>>
  /\ UNCHANGED analysisVars
  /\ UNCHANGED tickerVars

NextCharts ==
  \/ FillForCharts
  \/ DropForCharts

SpecCharts == InitCharts /\ [][NextCharts]_vars

Finite(c) == c.k = "num"

\* the value the statement gives bar r of a column: its own if finite, else
\* the nearest finite one before it, else the nearest finite one after it
FilledAsStated(vals, r) ==
  LET before == {j \in 1..r : Finite(vals[j])}
      after == {j \in r..Len(vals) : Finite(vals[j])}
  IN  IF before # {} THEN vals[CHOOSE j \in before : \A k \in before : k <= j]
      ELSE vals[CHOOSE j \in after : \A k \in after : j <= k]

\* C23: the table validate_data_for_charts returns has a finite, non-missing
\* value in Open, High, Low, Close and Volume of every row; a returned row
\* holds its own finite values, and in place of an infinite or missing one the
\* nearest finite value before it, or else after it, in the same column.
C23_ChartTableFinite ==
  pc = "charted" =>
    \A r \in 1..NRows(df) : \A j \in 1..Len(numeric_cols) :
      /\ Finite(Cell(df, r, numeric_cols[j]))
      /\ LET given_rows == {g \in 1..NRows(prev) : Cell(prev, g, "Date") = Cell(df, r, "Date")}
         IN  \A g \in given_rows :
               Cell(df, r, numeric_cols[j])
                 = FilledAsStated([i \in 1..NRows(prev) |-> Cell(prev, i, numeric_cols[j])], g)

C23_Witness ==
  /\ pc = "charted"
  /\ NRows(prev) = 3
  /\ Cell(prev, 1, "Open") = NaN
  /\ Cell(prev, 2, "Open") = Inf
  /\ Cell(prev, 3, "Volume") = Inf
  /\ NRows(df) = 3
  /\ Cell(df, 1, "Open") = Cell(prev, 3, "Open")

\* C26: validate_data_for_charts returns the rows it was given, all of them
\* and in their order, or none; it returns none exactly when the table has
\* rows and one of the five numeric columns has no finite value in any row.
C26_AllRowsOrNone ==
  pc = "charted" =>
    LET barren == \E j \in 1..Len(numeric_cols) :
                    \A r \in 1..NRows(prev) : ~Finite(Cell(prev, r, numeric_cols[j]))
    IN  /\ NRows(df) \in {0, NRows(prev)}
        /\ NRows(df) = NRows(prev) => \A r \in 1..NRows(df) : Cell(df, r, "Date") = Cell(prev, r, "Date")
        /\ (NRows(prev) > 0 /\ barren) <=> NRows(df) < NRows(prev)

C26_Witness ==
  /\ pc = "charted"
  /\ NRows(prev) = 3
  /\ \A r \in 1..3 : Cell(prev, r, "Volume") \in {NaN, Inf}
  /\ \E r \in 1..3 : Cell(prev, r, "Volume") = Inf
  /\ Cell(prev, 2, "Open") = NaN
  /\ Finite(Cell(prev, 1, "Open"))
  /\ NRows(df) = 0

-----------------------------------------------------------------------------
(* An uploaded file on its way to the analysis: process_uploaded_data, then *)
(* validate_data_for_charts, then analyze_stock on the stored table         *)
(* (app.py, lines 275-283 and 504-505).                                     *)

\* where the rows in st.session_state.data came from: the history of a listed
\* symbol, or an uploaded file
Listed(symbol) == [listed |-> TRUE, symbol |-> symbol]
Uploaded == [listed |-> FALSE, symbol |-> Symbol("", "")]

\* st.session_state.data: the frame, with where it came from
Data(frame, of) == [df |-> frame, of |-> of]

\* stock.info of the symbol asked
CompanyInfo(symbol) == [symbol |-> symbol]

\* line 284: the optional ticker typed next to the upload, upper-cased; ""
\* when the field is left empty
TypedTickers == {Symbol("", ""), Symbol("TCS", ".NS")}

PipelineFiles ==
  NseFiles \cup {Table(IndianHeader, <<ExampleRow>>), Table(TitleHeader, <<ExampleRow>>)}

InitPipeline ==
  /\ market \in Markets
  /\ raw \in PipelineFiles
  /\ df = raw
  /\ prev = raw
  /\ pc = "start"
  /\ err = ""
  /\ df2 = NoResult
  /\ series = EmptyTable
  /\ df_analysis = EmptyTable
  /\ signals = <<>>
  /\ summary_points = <<>>
  /\ overall_signal = ""
  /\ calls = 0
  /\ shared = FALSE
  /\ NoTickerLoad

\* app.py lines 280-283 and 504-505: the processed table is validated for the
\* charts, stored in the session and handed to analyze_stock
StoreUploaded ==
  /\ pc = "done"
  /\ series' = validate_data_for_charts(df)
  /\ \E typed \in TypedTickers :
       session_state' = [session_state EXCEPT !.data = Data(series', Uploaded), !.ticker = typed]
  /\ pc' = "analyze"
  /\ UNCHANGED <<df_analysis, signals, summary_points, overall_signal, calls, shared>>
  /\ UNCHANGED uploadVars
  /\ UNCHANGED loaderVars

NextPipeline ==
  \/ ProcessIndianFormat
  \/ ProcessInternationalFormat
  \/ CleanDropMissing
  \/ CleanDropInvalid
  \/ CleanSort
  \/ CleanCapOutliers
  \/ ReturnOrRaise
  \/ StoreUploaded
  \/ NextTA

SpecPipeline == InitPipeline /\ [][NextPipeline]_vars

InAnalysis ==
  pc \in {"analyze", "returned", "trend", "moving_averages", "momentum", "volatility", "volume",
          "summary", "analyzed", "raised"}

\* C28: a table returned by process_uploaded_data has the columns Date, Open,
\* High, Low, Close, Volume and no other; the table an upload hands to the
\* analysis has neither a vwap nor a Nooftrades column, so VWAP is computed
\* and the volume tab appends no liquidity observation.
C28_UploadHasSixColumns ==
  /\ [](pc = "done" => df.cols = required_columns)
  /\ [](InAnalysis => ~HasCol(series, "vwap") /\ ~HasCol(series, "Nooftrades"))
  /\ [][VolumeStep =>
          \A i \in 1..Len(Observed) :
            Observed[i] \notin {"High liquidity with increased trading activity",
                                "Lower liquidity with reduced trading activity"}]_vars

C28_Witness ==
  /\ pc = "summary"
  /\ HasCol(raw, "vwap")
  /\ HasCol(raw, "No of trades ")
  /\ NRows(series) > 0
  /\ series.cols = required_columns
  /\ HasCol(df_analysis, "VWAP")

-----------------------------------------------------------------------------
(* One app session (app.py, main): the user uploads files, fetches tickers  *)
(* and goes back to the home page, in any order.  Every interaction is one  *)
(* run of the script; st.session_state is what survives between runs.       *)

SessionFiles ==
  {Table(IndianHeader, <<ExampleRow>>),
   Table(Without(IndianHeader, 6), <<Without(ExampleRow, 6)>>)}

SessionTickers == {Symbol("TCS", ""), Symbol("TCS", ".BO")}

\* tickers for load_from_yahoo; they pass validate_ticker (utils.py, 29-36)
YahooTickers == {Symbol("AAPL", "")}

InitSession ==
  /\ market \in Markets
  /\ raw = EmptyTable
  /\ df = EmptyTable
  /\ prev = EmptyTable
  /\ err = ""
  /\ df2 = NoResult
  /\ series = EmptyTable
  /\ df_analysis = EmptyTable
  /\ signals = <<>>
  /\ summary_points = <<>>
  /\ overall_signal = ""
  /\ calls = 0
  /\ shared = FALSE
  /\ NoTickerLoad
  /\ pc = "page"

\* the script run has ended (also by the return of lines 293, 326 and 356) and
\* the page waits for the next interaction
ScriptEnded == pc \in {"page", "analyze", "error", "load_failed"}

\* lines 262-278: a file is put into the uploader and handed to
\* process_uploaded_data
UploadFile ==
  /\ ScriptEnded
  /\ market' \in Markets
  /\ raw' \in SessionFiles
  /\ df' = raw'
  /\ prev' = raw'
  /\ err' = ""
  /\ df2' = NoResult
  /\ series' = EmptyTable
  /\ given' = Symbol("", "")
  /\ period' = ""
  /\ ticker' = Symbol("", "")
  /\ fetched' = <<>>
  /\ hist' = <<>>
  /\ loaded' = [status |-> "idle", ticker |-> Symbol("", ""), df |-> <<>>, error |-> ""]
  /\ pc' = "start"
  /\ UNCHANGED <<df_analysis, signals, summary_points, overall_signal, calls, shared>>
  /\ UNCHANGED session_state

\* lines 297-312: Fetch Indian Stock Data is pressed with a ticker typed
FetchIndianTicker ==
  /\ ScriptEnded
  /\ market' = "Indian Market"
  /\ raw' = EmptyTable
  /\ df' = EmptyTable
  /\ prev' = EmptyTable
  /\ err' = ""
  /\ df2' = NoResult
  /\ series' = EmptyTable
  /\ given' \in SessionTickers
  /\ period' = "1y"
  /\ ticker' = given'
  /\ fetched' = <<>>
  /\ hist' = <<>>
  /\ loaded' = [status |-> "running", ticker |-> Symbol("", ""), df |-> <<>>, error |-> ""]
  /\ pc' = "load"
  /\ UNCHANGED <<df_analysis, signals, summary_points, overall_signal, calls, shared>>
  /\ UNCHANGED session_state

\* lines 312-316: what load_indian_ticker returned goes into the session
StoreFetched ==
  /\ pc = "loaded"
  /\ session_state' = [data |-> Data(loaded.df, Listed(loaded.ticker)),
                       ticker |-> loaded.ticker,
                       company_info |-> CompanyInfo(loaded.ticker)]
  /\ pc' = "page"
  /\ UNCHANGED uploadVars
  /\ UNCHANGED analysisVars
  /\ UNCHANGED loaderVars

\* lines 328-356 with load_from_yahoo (data_loader.py, 53-83): Fetch Data is
\* pressed; the history is asked, cleaned, and stored with the company info,
\* or the run ends with an error message
FetchYahooTicker ==
  /\ ScriptEnded
  /\ \E t \in YahooTickers, h \in HistoryResults, info_raises \in BOOLEAN :
       IF h = Raised \/ NoBars(h) \/ dropna(h.bars) = <<>> \/ info_raises
       THEN pc' = "load_failed" /\ UNCHANGED session_state
       ELSE /\ session_state' = [data |-> Data(dropna(h.bars), Listed(t)),
                                 ticker |-> t,
                                 company_info |-> CompanyInfo(t)]
            /\ pc' = "page"
  /\ UNCHANGED uploadVars
  /\ UNCHANGED analysisVars
  /\ UNCHANGED loaderVars

\* lines 239-244: Back to Home, shown while data is loaded
BackToHome ==
  /\ ScriptEnded
  /\ session_state.data # None
  /\ session_state' = NoSession
  /\ pc' = "page"
  /\ UNCHANGED uploadVars
  /\ UNCHANGED analysisVars
  /\ UNCHANGED loaderVars

NextSession ==
  \/ UploadFile
  \/ ProcessIndianFormat
  \/ ProcessInternationalFormat
  \/ CleanDropMissing
  \/ CleanDropInvalid
  \/ CleanSort
  \/ CleanCapOutliers
  \/ ReturnOrRaise
  \/ StoreUploaded
  \/ FetchIndianTicker
  \/ NextTicker
  \/ StoreFetched
  \/ FetchYahooTicker
  \/ BackToHome

SpecSession == InitSession /\ [][NextSession]_vars

\* C29: whenever the session holds company information, it was fetched for
\* the symbol whose history is the data loaded; after an upload the data is
\* that of a file, so no company information of a ticker fetched before is
\* left in the session.
C29_CompanyInfoOfLoadedData ==
  session_state.company_info # None =>
    /\ session_state.data # None
    /\ session_state.data.of = Listed(session_state.company_info.symbol)

====
